---- MODULE Spec2Model ----
(***************************************************************************)
(* Model of the analytics core of wiii_analytics (src/src/analyzers).      *)
(*                                                                         *)
(* Every analyzer entry point is a static, synchronous function.  A state  *)
(* of the model is one pending or finished invocation: `call` names the    *)
(* entry point, the input variables hold its arguments, `pc` is the        *)
(* position inside the call and `result` what it returned or raised.       *)
(* The two single-pass loops of RiskAnalyzer (drawdown, streaks) are       *)
(* modelled one iteration per step; the other entry points are one step.   *)
(*                                                                         *)
(* Numbers: monetary amounts are integers in units of 0.001, so that       *)
(* round(x, 2) is a real rounding (to a multiple of 10 units).  Ratios     *)
(* are kept exact as fractions <<num, den>> until the code rounds them.    *)
(* Dictionaries are functions whose DOMAIN is the set of keys present, so  *)
(* that dict.get(key, default) and a KeyError are both expressible.        *)
(***************************************************************************)
EXTENDS Integers, Sequences, FiniteSets, TLC

\* ------------------------------------------------------------------------
\* Bounds of the model
\* ------------------------------------------------------------------------
MaxStreakLen == 6

MaxCurveLen == 4

MaxReturnsLen == 3

MaxTradesLen == 2

MaxRecordsLen == 2

MaxSidesLen == 3

MaxStatsLen == 3

MaxDaysLen == 5

MaxRunLen == 12

\* ------------------------------------------------------------------------
\* Python helpers
\* ------------------------------------------------------------------------

\* dict.get(key, default)
Get(d, key, default) == IF key \in DOMAIN d THEN d[key] ELSE default

\* an optional dictionary entry: opt is <<>> (key absent) or <<v>>
Entry(key, opt) == IF opt = <<>> THEN <<>> ELSE (key :> opt[1])

Opt(S) == {<<>>} \cup {<<v>> : v \in S}

SeqsUpTo(S, n) == UNION {[1..k -> S] : k \in 0..n}

Abs(x) == IF x < 0 THEN -x ELSE x

Max2(a, b) == IF a > b THEN a ELSE b

\* round(num/den) to the nearest integer, ties to even (den > 0)
RoundHalfEven(num, den) ==
    LET q == num \div den
        r == num % den
    IN  IF 2 * r < den THEN q
        ELSE IF 2 * r > den THEN q + 1
        ELSE IF q % 2 = 0 THEN q ELSE q + 1

\* round(x, 2) of an amount held in units of 0.001
Round2(x) == 10 * RoundHalfEven(x, 10)

\* the value returned by a call, or the exception it raised
Return(v) == [kind |-> "return", value |-> v]

Raise(e) == [kind |-> "raise", exception |-> e]

NoResult == [kind |-> "none"]

Returned(r) == r.kind = "return"

Raised(r) == r.kind = "raise"

RECURSIVE SumSeq(_)
SumSeq(s) == IF s = <<>> THEN 0 ELSE s[1] + SumSeq(Tail(s))

\* ------------------------------------------------------------------------
\* State
\* ------------------------------------------------------------------------
VARIABLES
    call,                  \* entry point of the invocation
    pc,                    \* "start", "loop" or "done"
    income_records,        \* argument: list of income dicts
    trades,                \* argument: list of trade dicts
    daily_returns,         \* argument: list of returns
    risk_free_rate,        \* argument of the ratio functions
    annualization_factor,  \* argument of the ratio functions
    equity_curve,          \* argument: list of equity points
    pnl_list,              \* argument of _calculate_streaks
    daily_pnl,             \* argument: list of daily result dicts
    window,                \* argument of detect_performance_regime
    symbol_stats,          \* argument of the ranking queries
    top_n,                 \* argument n of the ranking queries
    orders,                \* argument: list of order dicts
    i,                     \* index of the next element of the running loop
    peak,                  \* calculate_max_drawdown locals
    max_dd_pct,
    max_dd_usd,
    dd_start,
    current_dd_start,
    current_win_streak,    \* _calculate_streaks locals
    current_loss_streak,
    max_win_streak,
    max_loss_streak,
    result                 \* NoResult, Return(value) or Raise(exception)

inputs == <<income_records, trades, daily_returns, risk_free_rate,
            annualization_factor, equity_curve, pnl_list, daily_pnl, window,
            symbol_stats, top_n, orders>>

dd_locals == <<peak, max_dd_pct, max_dd_usd, dd_start, current_dd_start>>

streak_locals == <<current_win_streak, current_loss_streak,
                   max_win_streak, max_loss_streak>>

vars == <<call, pc, inputs, i, dd_locals, streak_locals, result>>

\* a variable that may hold None: None is <<>>, the value v is <<v>>
None == <<>>

\* the arguments an invocation does not take, and the locals before a call
NoIncome == income_records = <<>>

NoTrades == trades = <<>>

NoReturns == daily_returns = <<>> /\ risk_free_rate = 0 /\ annualization_factor = 365

NoCurve == equity_curve = <<>>

NoPnl == pnl_list = <<>>

NoDaily == daily_pnl = <<>> /\ window = 20

NoRanking == symbol_stats = <<>> /\ top_n = 10

NoOrders == orders = <<>>

LocalsUnset ==
    /\ i = 0
    /\ peak = 0
    /\ max_dd_pct = <<0, 1>>
    /\ max_dd_usd = 0
    /\ dd_start = None
    /\ current_dd_start = None
    /\ current_win_streak = 0
    /\ current_loss_streak = 0
    /\ max_win_streak = 0
    /\ max_loss_streak = 0

Pending(c) == call = c /\ pc = "start" /\ result = NoResult /\ LocalsUnset

\* a one-step entry point: the whole function body runs and returns
Finish(c, r) ==
    /\ call = c
    /\ pc = "start"
    /\ pc' = "done"
    /\ result' = r
    /\ UNCHANGED <<call, inputs, i, dd_locals, streak_locals>>

\* ------------------------------------------------------------------------
\* RiskAnalyzer._calculate_streaks
\* ------------------------------------------------------------------------
StreakPnl == {-1, 0, 1, 2}

\* one iteration of the loop body: <<cw, cl, mw, ml>> after seeing pnl
StreakStepZeroResets(pnl, cw, cl, mw, ml) ==
    IF pnl > 0 THEN <<cw + 1, 0, Max2(mw, cw + 1), ml>>
    ELSE IF pnl < 0 THEN <<0, cl + 1, mw, Max2(ml, cl + 1)>>
    ELSE <<0, 0, mw, ml>>

StreakStep(pnl, cw, cl, mw, ml) ==
    IF pnl > 0 THEN <<cw + 1, 0, Max2(mw, cw + 1), ml>>
    ELSE IF pnl < 0 THEN <<0, cl + 1, mw, Max2(ml, cl + 1)>>
    ELSE <<cw, cl, mw, ml>>

CurrentStreakUnsigned(cw, cl) == IF cw > 0 THEN cw ELSE cl

CurrentStreak(cw, cl) == IF cw > 0 THEN cw ELSE -cl

\* the entry that would carry the counters of an earlier call into this one
StreaksEnterKeepingCounters ==
    /\ call = "_calculate_streaks"
    /\ pc = "start"
    /\ IF pnl_list = <<>>
       THEN /\ pc' = "done"
            /\ result' = Return([max_win_streak |-> 0, max_loss_streak |-> 0,
                                 current_streak |-> 0])
            /\ UNCHANGED <<i, streak_locals>>
       ELSE /\ pc' = "loop"
            /\ i' = 1
            /\ UNCHANGED <<result, streak_locals>>
    /\ UNCHANGED <<call, inputs, dd_locals>>

StreaksEnter ==
    /\ call = "_calculate_streaks"
    /\ pc = "start"
    /\ IF pnl_list = <<>>
       THEN /\ pc' = "done"
            /\ result' = Return([max_win_streak |-> 0, max_loss_streak |-> 0,
                                 current_streak |-> 0])
            /\ UNCHANGED <<i, streak_locals>>
       ELSE /\ pc' = "loop"
            /\ i' = 1
            /\ max_win_streak' = 0
            /\ max_loss_streak' = 0
            /\ current_win_streak' = 0
            /\ current_loss_streak' = 0
            /\ UNCHANGED result
    /\ UNCHANGED <<call, inputs, dd_locals>>

StreaksLoop ==
    /\ call = "_calculate_streaks"
    /\ pc = "loop"
    /\ i <= Len(pnl_list)
    /\ LET n == StreakStep(pnl_list[i], current_win_streak, current_loss_streak,
                           max_win_streak, max_loss_streak)
       IN  /\ current_win_streak' = n[1]
           /\ current_loss_streak' = n[2]
           /\ max_win_streak' = n[3]
           /\ max_loss_streak' = n[4]
    /\ i' = i + 1
    /\ UNCHANGED <<call, pc, inputs, dd_locals, result>>

StreaksReturn ==
    /\ call = "_calculate_streaks"
    /\ pc = "loop"
    /\ i > Len(pnl_list)
    /\ pc' = "done"
    /\ result' = Return([max_win_streak |-> max_win_streak,
                         max_loss_streak |-> max_loss_streak,
                         current_streak |->
                             CurrentStreak(current_win_streak, current_loss_streak)])
    /\ UNCHANGED <<call, inputs, i, dd_locals, streak_locals>>

\* --- reference notions for the streak claims ---
NonZero(s) == SelectSeq(s, LAMBDA x : x # 0)

\* length of the run of wins (sign = 1) or losses (sign = -1) that ends s,
\* zero-pnl elements ignored
TrailingRun(s, sign) ==
    LET z == NonZero(s)
    IN  CHOOSE n \in 0..Len(z) :
            /\ \A k \in (Len(z) - n + 1)..Len(z) : z[k] * sign > 0
            /\ (n < Len(z) => z[Len(z) - n] * sign < 0)

\* longest such run over all prefixes of s
LongestRun(s, sign) ==
    LET runs == {TrailingRun(SubSeq(s, 1, k), sign) : k \in 0..Len(s)}
    IN  CHOOSE m \in runs : \A r \in runs : r <= m

\* the part of pnl_list the loop has consumed
Consumed ==
    IF pc = "done" THEN pnl_list
    ELSE IF pc = "loop" THEN SubSeq(pnl_list, 1, i - 1)
    ELSE <<>>

\* C9: in the forward pass a win extends the win streak and resets the loss
\* streak, a loss does the reverse and a zero pnl changes neither, so after
\* every iteration the two counters are the trailing win/loss runs of the
\* consumed prefix (zeros ignored) and the maxima are the longest runs seen;
\* the returned maxima are those of the whole list, and
\* [+1,+2,-1,-1,-1,+1] gives max_win_streak 2 and max_loss_streak 3.
StreakCountersCorrect ==
    /\ (call = "_calculate_streaks" /\ pc = "loop") =>
          /\ current_win_streak = TrailingRun(Consumed, 1)
          /\ current_loss_streak = TrailingRun(Consumed, -1)
          /\ max_win_streak = LongestRun(Consumed, 1)
          /\ max_loss_streak = LongestRun(Consumed, -1)
    /\ (call = "_calculate_streaks" /\ pc = "done") =>
          /\ result.value.max_win_streak = LongestRun(pnl_list, 1)
          /\ result.value.max_loss_streak = LongestRun(pnl_list, -1)
          /\ (pnl_list = <<1, 2, -1, -1, -1, 1>> =>
                 /\ result.value.max_win_streak = 2
                 /\ result.value.max_loss_streak = 3)

StreakExampleReturned ==
    /\ call = "_calculate_streaks"
    /\ pc = "done"
    /\ pnl_list = <<1, 2, -1, -1, -1, 1>>
    /\ result = Return([max_win_streak |-> 2, max_loss_streak |-> 3,
                        current_streak |-> 1])

\* C10: the returned current_streak is the length of the active win streak
\* (positive) when the last non-zero pnl was a win, minus the length of the
\* active loss streak when it was a loss, and 0 when there was no non-zero
\* pnl; the win and loss counters are never both non-zero.
CurrentStreakSigned ==
    /\ (call = "_calculate_streaks" /\ pc = "loop") =>
          ~(current_win_streak # 0 /\ current_loss_streak # 0)
    /\ (call = "_calculate_streaks" /\ pc = "done") =>
          LET z == NonZero(pnl_list)
              cs == result.value.current_streak
          IN  /\ (z # <<>> /\ z[Len(z)] > 0) =>
                    (cs > 0 /\ cs = TrailingRun(pnl_list, 1))
              /\ (z # <<>> /\ z[Len(z)] < 0) =>
                    (cs < 0 /\ -cs = TrailingRun(pnl_list, -1))
              /\ (z = <<>>) => cs = 0

ActiveLossStreakReturned ==
    /\ call = "_calculate_streaks"
    /\ pc = "done"
    /\ Len(pnl_list) >= 4
    /\ pnl_list[Len(pnl_list)] = 0
    /\ pnl_list[1] > 0
    /\ result.value.current_streak = -2


InitStreaks ==
    /\ Pending("_calculate_streaks")
    /\ pnl_list \in SeqsUpTo(StreakPnl, MaxStreakLen)
    /\ NoIncome /\ NoTrades /\ NoReturns /\ NoCurve /\ NoDaily /\ NoRanking /\ NoOrders

NextStreaks == StreaksEnter \/ StreaksLoop \/ StreaksReturn

SpecStreaks == InitStreaks /\ [][NextStreaks]_vars

\* ------------------------------------------------------------------------
\* RiskAnalyzer.calculate_max_drawdown
\* ------------------------------------------------------------------------
\* balances in units of 0.001; <<>> is an equity point without "balance"
BalanceOpts == Opt({-1000, 0, 1000, 1504, 3000})

\* equity points in chronological order, the time of the k-th point is k
EquityCurves ==
    UNION {{[k \in 1..n |-> ("time" :> k) @@ Entry("balance", b[k])] :
               b \in [1..n -> BalanceOpts]} : n \in 0..MaxCurveLen}

\* comparison of two fractions with positive denominators
FracGt(f, g) == f[1] * g[2] > g[1] * f[2]

\* round(f, 2) of a fraction, in hundredths
Round2Frac(f) == RoundHalfEven(100 * f[1], f[2])

\* drawdown_pct = (peak - balance) / peak * 100 if peak > 0 else 0
DrawdownPctOfBalance(pk, balance) ==
    IF balance > 0 THEN <<(pk - balance) * 100, balance>> ELSE <<0, 1>>

DrawdownPct(pk, balance) ==
    IF pk > 0 THEN <<(pk - balance) * 100, pk>> ELSE <<0, 1>>

DrawdownEnter ==
    /\ call = "calculate_max_drawdown"
    /\ pc = "start"
    /\ IF Len(equity_curve) < 2
       THEN /\ pc' = "done"
            /\ result' = Return([max_drawdown_pct |-> 0, max_drawdown_usd |-> 0])
            /\ UNCHANGED <<i, dd_locals>>
       ELSE /\ pc' = "loop"
            /\ i' = 1
            /\ peak' = Get(equity_curve[1], "balance", 0)
            /\ max_dd_pct' = <<0, 1>>
            /\ max_dd_usd' = 0
            /\ dd_start' = None
            /\ current_dd_start' = None
            /\ UNCHANGED result
    /\ UNCHANGED <<call, inputs, streak_locals>>

\* one iteration of `for point in equity_curve` (the first point included)
DrawdownLoop ==
    /\ call = "calculate_max_drawdown"
    /\ pc = "loop"
    /\ i <= Len(equity_curve)
    /\ LET point == equity_curve[i]
           balance == Get(point, "balance", 0)
           started == IF current_dd_start = None
                      THEN (IF "time" \in DOMAIN point
                            THEN <<point["time"]>> ELSE None)
                      ELSE current_dd_start
           drawdown_pct == DrawdownPct(peak, balance)
           drawdown_usd == peak - balance
       IN  IF balance > peak
           THEN /\ peak' = balance
                /\ current_dd_start' = None
                /\ UNCHANGED <<max_dd_pct, max_dd_usd, dd_start>>
           ELSE /\ current_dd_start' = started
                /\ IF FracGt(drawdown_pct, max_dd_pct)
                   THEN /\ max_dd_pct' = drawdown_pct
                        /\ max_dd_usd' = drawdown_usd
                        /\ dd_start' = started
                   ELSE UNCHANGED <<max_dd_pct, max_dd_usd, dd_start>>
                /\ UNCHANGED peak
    /\ i' = i + 1
    /\ UNCHANGED <<call, pc, inputs, streak_locals, result>>

DrawdownReturn ==
    /\ call = "calculate_max_drawdown"
    /\ pc = "loop"
    /\ i > Len(equity_curve)
    /\ pc' = "done"
    /\ result' = Return([max_drawdown_pct |-> Round2Frac(max_dd_pct),
                         max_drawdown_usd |-> Round2(max_dd_usd),
                         peak_before_dd |-> Round2(peak)])
    /\ UNCHANGED <<call, inputs, i, dd_locals, streak_locals>>

\* --- reference notions for the drawdown claims ---
Balance(k) == Get(equity_curve[k], "balance", 0)

AllNonNegative == \A k \in 1..Len(equity_curve) : Balance(k) >= 0

\* the highest balance among the first k points
HighestUpTo(k) ==
    CHOOSE m \in {Balance(j) : j \in 1..k} : \A j \in 1..k : Balance(j) <= m

\* the drawdown percentage at point k against the highest balance up to k
DeclineAt(k) ==
    IF HighestUpTo(k) > 0
    THEN <<(HighestUpTo(k) - Balance(k)) * 100, HighestUpTo(k)>>
    ELSE <<0, 1>>

\* the first point at which the largest drawdown percentage is observed
DeepestPoint ==
    CHOOSE k \in 1..Len(equity_curve) :
        /\ \A j \in 1..Len(equity_curve) : ~FracGt(DeclineAt(j), DeclineAt(k))
        /\ \A j \in 1..(k - 1) : FracGt(DeclineAt(k), DeclineAt(j))

\* C7: on an equity curve without negative balances the running peak is at
\* least every balance consumed so far, the running maximum drawdown is
\* between 0 and 100 percent, and so is the returned max_drawdown_pct
\* (held in hundredths of a percent).
DrawdownPctBounded ==
    (call = "calculate_max_drawdown" /\ AllNonNegative) =>
        /\ pc = "loop" =>
              /\ \A k \in 1..(i - 1) : peak >= Balance(k)
              /\ max_dd_pct[1] >= 0
              /\ max_dd_pct[1] <= 100 * max_dd_pct[2]
        /\ pc = "done" =>
              /\ result.value.max_drawdown_pct >= 0
              /\ result.value.max_drawdown_pct <= 10000

TotalLossReturned ==
    /\ call = "calculate_max_drawdown"
    /\ pc = "done"
    /\ AllNonNegative
    /\ Len(equity_curve) >= 3
    /\ Balance(1) < Balance(2)
    /\ result.value.max_drawdown_pct = 10000

\* C8: the result reports the peak that preceded the maximum drawdown and
\* the dollar value of that drawdown: peak_before_dd is the running peak at
\* the point where the largest drawdown percentage was observed and
\* max_drawdown_usd that peak minus the balance there, also when the curve
\* later reaches a higher peak.
PeakBeforeDrawdownReported ==
    (/\ call = "calculate_max_drawdown"
     /\ pc = "done"
     /\ Len(equity_curve) >= 2
     /\ FracGt(DeclineAt(DeepestPoint), <<0, 1>>)) =>
        /\ result.value.peak_before_dd = Round2(HighestUpTo(DeepestPoint))
        /\ result.value.max_drawdown_usd =
              Round2(HighestUpTo(DeepestPoint) - Balance(DeepestPoint))

\* the reported dollar value alone is that of the deepest drawdown
DrawdownUsdReported ==
    (/\ call = "calculate_max_drawdown"
     /\ pc = "done"
     /\ Len(equity_curve) >= 2
     /\ FracGt(DeclineAt(DeepestPoint), <<0, 1>>)) =>
        result.value.max_drawdown_usd =
            Round2(HighestUpTo(DeepestPoint) - Balance(DeepestPoint))

InitDrawdown ==
    /\ Pending("calculate_max_drawdown")
    /\ equity_curve \in EquityCurves
    /\ NoIncome /\ NoTrades /\ NoReturns /\ NoPnl /\ NoDaily /\ NoRanking /\ NoOrders

NextDrawdown == DrawdownEnter \/ DrawdownLoop \/ DrawdownReturn

SpecDrawdown == InitDrawdown /\ [][NextDrawdown]_vars

\* ------------------------------------------------------------------------
\* RiskAnalyzer.calculate_sortino_ratio
\* ------------------------------------------------------------------------
ReturnValues == {-1, 0, 1, 2}

RiskFreeRates == {0, 1, 365}

AnnualizationFactors == {1, 365}

\* float results: 0.0, float('inf'), or a finite non-zero value.  A finite
\* ratio is sign * sqrt(sq_num / sq_den) rounded to 2 decimals; the model
\* keeps the sign and the exact square of the unrounded magnitude.
Zero == [float |-> "0.0"]

Inf == [float |-> "inf"]

\* round(sign * sqrt(num / den), 2), den > 0: 0.0 when the magnitude is at
\* most 0.005, i.e. num / den <= 1 / 40000
RoundedRatio(sign, num, den) ==
    IF sign = 0 \/ num <= den \div 40000
    THEN Zero
    ELSE [float |-> "finite", sign |-> sign, sq_num |-> num, sq_den |-> den]

Sign(x) == IF x > 0 THEN 1 ELSE IF x < 0 THEN -1 ELSE 0

RECURSIVE SumSquares(_)
SumSquares(s) == IF s = <<>> THEN 0 ELSE s[1] * s[1] + SumSquares(Tail(s))

\* excess_return = sum/len - rf/af as the fraction
\* (sum * af - rf * len) / (len * af); its numerator carries the sign
ExcessNumerator(returns, rf, af) == SumSeq(returns) * af - rf * Len(returns)

\* the branch taken when negative_returns is empty
NoDownsideInclusive(excess) == IF excess >= 0 THEN Inf ELSE Zero

NoDownside(excess) == IF excess > 0 THEN Inf ELSE Zero

calculate_sortino_ratio(returns, rf, af) ==
    IF Len(returns) < 2 THEN Zero
    ELSE
      LET excess == ExcessNumerator(returns, rf, af)
          negative_returns == SelectSeq(returns, LAMBDA r : r < 0)
          squares == SumSquares(negative_returns)
      IN  IF negative_returns = <<>> THEN NoDownside(excess)
          ELSE IF squares = 0 THEN Zero
          \* (excess / downside_dev * sqrt(af))^2
          \*   = excess^2 * len(negative_returns) / (len^2 * af * squares)
          ELSE RoundedRatio(Sign(excess),
                            excess * excess * Len(negative_returns),
                            Len(returns) * Len(returns) * af * squares)

SortinoCall ==
    Finish("calculate_sortino_ratio",
           Return(calculate_sortino_ratio(daily_returns, risk_free_rate,
                                          annualization_factor)))

\* --- reference notions for the Sortino claim ---
NoNegativeReturn == \A k \in 1..Len(daily_returns) : daily_returns[k] >= 0

\* mean return > risk_free_rate / annualization_factor (series not empty)
ExcessPositive ==
    SumSeq(daily_returns) * annualization_factor >
        risk_free_rate * Len(daily_returns)

InitRisk ==
    /\ Pending("calculate_sortino_ratio")
    /\ daily_returns \in SeqsUpTo(ReturnValues, MaxReturnsLen)
    /\ risk_free_rate \in RiskFreeRates
    /\ annualization_factor \in AnnualizationFactors
    /\ NoIncome /\ NoTrades /\ NoCurve /\ NoPnl /\ NoDaily /\ NoRanking /\ NoOrders

NextRisk == SortinoCall

SpecRisk == InitRisk /\ [][NextRisk]_vars

\* ------------------------------------------------------------------------
\* SignalAnalyzer
\* ------------------------------------------------------------------------
\* realized_pnl of a trade, units of 0.001
Pnl(t) == Get(t, "realized_pnl", 0)

PnlOf(ts) == SumSeq([k \in 1..Len(ts) |-> Pnl(ts[k])])

WinsOf(ts) == Len(SelectSeq(ts, LAMBDA t : Pnl(t) > 0))

\* round(wins / count * 100, 1), in tenths of a percent
WinRate(wins, count) == IF count > 0 THEN RoundHalfEven(wins * 1000, count) ELSE 0

\* round(pnl / count, 4), in units of 0.0001
AvgPnl(pnl, count) == IF count > 0 THEN RoundHalfEven(pnl * 10, count) ELSE 0

\* --- analyze_by_confidence ---
\* confidence is held in hundredths: the bucket bounds 0, 0.4, 0.7, 1.0
ConfidenceBuckets ==
    <<[name |-> "low", min |-> 0, max |-> 40],
      [name |-> "medium", min |-> 40, max |-> 70],
      [name |-> "high", min |-> 70, max |-> 100]>>

Confidence(t) == Get(t, "confidence", 50)

\* the test `bucket["min"] <= confidence < bucket["max"]`
InBucket(bucket, confidence) ==
    bucket.min <= confidence /\ confidence < bucket.max

\* the trades appended to the b-th bucket: the first bucket that matches
\* takes the trade (break)
BucketTrades(ts, b) ==
    SelectSeq(ts, LAMBDA t :
        /\ InBucket(ConfidenceBuckets[b], Confidence(t))
        /\ \A a \in 1..(b - 1) : ~InBucket(ConfidenceBuckets[a], Confidence(t)))

BucketStats(ts) ==
    [trade_count |-> Len(ts),
     win_count |-> WinsOf(ts),
     win_rate |-> WinRate(WinsOf(ts), Len(ts)),
     total_pnl |-> Round2(PnlOf(ts)),
     avg_pnl |-> AvgPnl(PnlOf(ts), Len(ts))]

analyze_by_confidence(ts) ==
    LET by == [low |-> BucketStats(BucketTrades(ts, 1)),
               medium |-> BucketStats(BucketTrades(ts, 2)),
               high |-> BucketStats(BucketTrades(ts, 3))]
        valid == /\ by.high.win_rate >= by.medium.win_rate
                 /\ by.medium.win_rate >= by.low.win_rate
    IN  Return([by_confidence |-> by,
                confidence_correlation_valid |-> valid,
                recommendation |->
                    IF valid THEN "Confidence scoring is effective"
                    ELSE "Consider re-calibrating confidence model"])

\* --- analyze_by_direction ---
\* str.upper() on the side strings of the model
Upper(side) ==
    CASE side = "buy" -> "BUY"
      [] side = "Sell" -> "SELL"
      [] side = "short" -> "SHORT"
      [] OTHER -> side

Side(t) == Upper(Get(t, "side", ""))

LongTradesCaseSensitive(ts) ==
    SelectSeq(ts, LAMBDA t : Get(t, "side", "") \in {"BUY", "LONG"})

LongTrades(ts) == SelectSeq(ts, LAMBDA t : Side(t) \in {"BUY", "LONG"})

ShortTrades(ts) == SelectSeq(ts, LAMBDA t : Side(t) \in {"SELL", "SHORT"})

\* the nested calc_stats: the empty list gets a dict without "total_pnl"
calc_stats(trade_list) ==
    IF trade_list = <<>>
    THEN [count |-> 0, pnl |-> 0, win_rate |-> 0]
    ELSE [count |-> Len(trade_list),
          total_pnl |-> Round2(PnlOf(trade_list)),
          win_rate |-> WinRate(WinsOf(trade_list), Len(trade_list)),
          avg_pnl |-> AvgPnl(PnlOf(trade_list), Len(trade_list))]

\* long_total > short_total * 1.5, else short_total > long_total * 1.5
MarketBias(long_total, short_total) ==
    IF 2 * long_total > 3 * short_total THEN "BULLISH"
    ELSE IF 2 * short_total > 3 * long_total THEN "BEARISH"
    ELSE "NEUTRAL"

analyze_by_direction(ts) ==
    LET long_stats == calc_stats(LongTrades(ts))
        short_stats == calc_stats(ShortTrades(ts))
    IN  IF "total_pnl" \notin DOMAIN long_stats \/ "total_pnl" \notin DOMAIN short_stats
        THEN Raise("KeyError")
        ELSE Return([long |-> long_stats,
                     short |-> short_stats,
                     market_bias |-> MarketBias(long_stats.total_pnl,
                                                short_stats.total_pnl)])

\* --- analyze_by_exit_reason, analyze_by_signal_source ---
\* the keys of a defaultdict in insertion order: first occurrences of s
RECURSIVE FirstOccurrences(_)
FirstOccurrences(s) ==
    IF s = <<>> THEN <<>>
    ELSE LET front == FirstOccurrences(SubSeq(s, 1, Len(s) - 1))
             last == s[Len(s)]
         IN  IF \E k \in 1..Len(front) : front[k] = last
             THEN front ELSE Append(front, last)

\* sorted(items, key=count, reverse=True): stable, larger counts first
RECURSIVE InsertByCount(_, _)
InsertByCount(sorted, item) ==
    IF sorted = <<>> THEN <<item>>
    ELSE IF sorted[1][2].count >= item[2].count
         THEN <<sorted[1]>> \o InsertByCount(Tail(sorted), item)
         ELSE <<item>> \o sorted

RECURSIVE SortByCount(_)
SortByCount(items) ==
    IF items = <<>> THEN <<>>
    ELSE InsertByCount(SortByCount(SubSeq(items, 1, Len(items) - 1)),
                       items[Len(items)])

ExitReason(t) == Get(t, "exit_reason", "UNKNOWN")

\* trade.get("strategy", trade.get("signal_source", "LIMIT_SNIPER"))
SignalSource(t) == Get(t, "strategy", Get(t, "signal_source", "LIMIT_SNIPER"))

\* a dict is a sequence of <<key, value>> in iteration order
analyze_by_exit_reason(ts) ==
    LET reasons == FirstOccurrences([k \in 1..Len(ts) |-> ExitReason(ts[k])])
        stats(reason) ==
            LET group == SelectSeq(ts, LAMBDA t : ExitReason(t) = reason)
            IN  [count |-> Len(group),
                 total_pnl |-> Round2(PnlOf(group)),
                 avg_pnl |-> AvgPnl(PnlOf(group), Len(group)),
                 win_rate |-> WinRate(WinsOf(group), Len(group)),
                 pct_of_total |-> RoundHalfEven(Len(group) * 1000, Len(ts))]
    IN  Return(SortByCount([k \in 1..Len(reasons) |->
                               <<reasons[k], stats(reasons[k])>>]))

analyze_by_signal_source(ts) ==
    LET sources == FirstOccurrences([k \in 1..Len(ts) |-> SignalSource(ts[k])])
        stats(source) ==
            LET group == SelectSeq(ts, LAMBDA t : SignalSource(t) = source)
            IN  [count |-> Len(group),
                 total_pnl |-> Round2(PnlOf(group)),
                 avg_pnl |-> AvgPnl(PnlOf(group), Len(group)),
                 win_rate |-> WinRate(WinsOf(group), Len(group))]
    IN  Return([k \in 1..Len(sources) |-> <<sources[k], stats(sources[k])>>])

\* --- generate_signal_report ---
\* the four analyses in order; an exception of one of them propagates.
\* generated_at (the wall clock) is not part of the modelled value.
generate_signal_report(ts) ==
    LET confidence == analyze_by_confidence(ts)
        direction == analyze_by_direction(ts)
        exit_reasons == analyze_by_exit_reason(ts)
        sources == analyze_by_signal_source(ts)
    IN  IF Raised(direction) THEN direction
        ELSE Return([confidence_attribution |-> confidence.value,
                     direction_attribution |-> direction.value,
                     exit_reason_attribution |-> exit_reasons.value,
                     signal_source_attribution |-> sources.value,
                     total_trades_analyzed |-> Len(ts)])

ConfidenceCall == Finish("analyze_by_confidence", analyze_by_confidence(trades))

DirectionCall == Finish("analyze_by_direction", analyze_by_direction(trades))

ExitReasonCall == Finish("analyze_by_exit_reason", analyze_by_exit_reason(trades))

SignalSourceCall == Finish("analyze_by_signal_source", analyze_by_signal_source(trades))

SignalReportCall == Finish("generate_signal_report", generate_signal_report(trades))

\* --- the trades handed to the signal analyzer ---
PnlOpts == Opt({-2000, 0, 1996, 2000, 3000})

ConfidenceTrades ==
    {Entry("confidence", c) @@ Entry("realized_pnl", p) :
        c \in Opt({-1, 0, 39, 40, 70, 100, 101}), p \in Opt({-2000, 0, 3000})}

DirectionTrades ==
    {Entry("side", sd) @@ Entry("realized_pnl", p) :
        sd \in Opt({"buy", "LONG", "Sell", "short", "HOLD"}), p \in PnlOpts}

\* trades that differ by their side only
SidedTrades ==
    {Entry("side", sd) @@ ("realized_pnl" :> 3000) :
        sd \in Opt({"buy", "LONG", "Sell", "short", "HOLD"})}

AttributedTrades ==
    {("side" :> sd) @@ ("realized_pnl" :> p) @@ Entry("exit_reason", er)
        @@ Entry("strategy", st) @@ Entry("signal_source", ss) :
        sd \in {"LONG", "Sell"}, p \in {-2000, 3000},
        er \in Opt({"STOP_LOSS"}), st \in Opt({"GRID"}), ss \in Opt({"TREND"})}

\* --- claims about the signal analyzer ---
\* C2: when every trade's confidence is absent or within [0, 1], each trade
\* is in exactly one of the buckets low, medium, high (1.0 included in
\* high), so the three trade counts add up to the number of input trades.
ConfidencePartition ==
    (/\ call = "analyze_by_confidence"
     /\ pc = "done"
     /\ \A k \in 1..Len(trades) :
           "confidence" \in DOMAIN trades[k] =>
               (trades[k]["confidence"] >= 0 /\ trades[k]["confidence"] <= 100)) =>
        LET by == result.value.by_confidence
        IN  by.low.trade_count + by.medium.trade_count + by.high.trade_count
                = Len(trades)

\* C3 (at the signal analyzer): called with an empty trade list every entry
\* point returns a result and does not raise, and so does
\* analyze_by_direction when only one of the long/short buckets is empty.
EmptyInputNeverRaises ==
    /\ (pc = "done" /\ trades = <<>> /\
        call \in {"analyze_by_confidence", "analyze_by_direction",
                  "analyze_by_exit_reason", "analyze_by_signal_source",
                  "generate_signal_report"}) => Returned(result)
    /\ (pc = "done" /\ call = "analyze_by_direction" /\
        (LongTrades(trades) = <<>> \/ ShortTrades(trades) = <<>>)) =>
            Returned(result)

\* a exceeds b by a factor of at least 1.5
ExceedsByFactor(a, b) == a > b /\ 2 * a >= 3 * b

\* C5: market_bias is BULLISH if the long total pnl exceeds the short total
\* pnl by a factor of at least 1.5, BEARISH if the short total exceeds the
\* long total by that factor, NEUTRAL otherwise, whatever the signs.
MarketBiasByFactor ==
    (call = "analyze_by_direction" /\ pc = "done" /\ Returned(result)) =>
        LET long_total == result.value.long.total_pnl
            short_total == result.value.short.total_pnl
        IN  result.value.market_bias =
                IF ExceedsByFactor(long_total, short_total) THEN "BULLISH"
                ELSE IF ExceedsByFactor(short_total, long_total) THEN "BEARISH"
                ELSE "NEUTRAL"

\* C28: market_bias is NEUTRAL whenever the long and the short bucket are
\* both non-empty and have equal total pnl, whatever the sign of the total.
EqualTotalsAreNeutral ==
    (call = "analyze_by_direction" /\ pc = "done" /\ Returned(result)
        /\ result.value.long.count > 0 /\ result.value.short.count > 0
        /\ result.value.long.total_pnl = result.value.short.total_pnl) =>
        result.value.market_bias = "NEUTRAL"

\* equal totals that are not negative do give NEUTRAL
EqualNonNegativeTotalsAreNeutral ==
    (call = "analyze_by_direction" /\ pc = "done" /\ Returned(result)
        /\ result.value.long.count > 0 /\ result.value.short.count > 0
        /\ result.value.long.total_pnl = result.value.short.total_pnl
        /\ result.value.long.total_pnl >= 0) =>
        result.value.market_bias = "NEUTRAL"

\* --- reference notions for the side matching claim ---
\* the side of a trade folded to lower case
FoldedSide(t) ==
    LET side == Get(t, "side", "")
    IN  CASE side = "LONG" -> "long"
          [] side = "Sell" -> "sell"
          [] side = "HOLD" -> "hold"
          [] OTHER -> side

LongIndexes == {k \in 1..Len(trades) : FoldedSide(trades[k]) \in {"buy", "long"}}

ShortIndexes == {k \in 1..Len(trades) : FoldedSide(trades[k]) \in {"sell", "short"}}

Elements(s) == {s[k] : k \in 1..Len(s)}

\* C20: sides are matched case-insensitively: a trade is in the long bucket
\* iff its side is BUY or LONG in any letter case, in the short bucket iff
\* it is SELL or SHORT, and in neither bucket with any other or no side; no
\* trade is in both buckets and long.count + short.count is at most the
\* number of input trades.
SidesMatchedIgnoringCase ==
    (call = "analyze_by_direction" /\ pc = "done") =>
        /\ \A k \in 1..Len(trades) :
              /\ (trades[k] \in Elements(LongTrades(trades))) <=> (k \in LongIndexes)
              /\ (trades[k] \in Elements(ShortTrades(trades))) <=> (k \in ShortIndexes)
              /\ ~(trades[k] \in Elements(LongTrades(trades))
                     /\ trades[k] \in Elements(ShortTrades(trades)))
        /\ Len(LongTrades(trades)) = Cardinality(LongIndexes)
        /\ Len(ShortTrades(trades)) = Cardinality(ShortIndexes)
        /\ Returned(result) =>
              /\ result.value.long.count = Cardinality(LongIndexes)
              /\ result.value.short.count = Cardinality(ShortIndexes)
              /\ result.value.long.count + result.value.short.count <= Len(trades)

MixedCaseSidesBucketed ==
    /\ call = "analyze_by_direction"
    /\ pc = "done"
    /\ Returned(result)
    /\ Len(trades) = 3
    /\ Get(trades[1], "side", "") = "buy"
    /\ Get(trades[2], "side", "") \in {"", "HOLD"}
    /\ Get(trades[3], "side", "") = "Sell"
    /\ result.value.long.count = 1
    /\ result.value.short.count = 1

InitSignal ==
    /\ \/ /\ Pending("analyze_by_confidence")
          /\ trades \in SeqsUpTo(ConfidenceTrades, MaxTradesLen)
       \/ /\ Pending("analyze_by_direction")
          /\ trades \in SeqsUpTo(DirectionTrades, MaxTradesLen)
                        \cup SeqsUpTo(SidedTrades, MaxSidesLen)
       \/ /\ call \in {"analyze_by_exit_reason", "analyze_by_signal_source",
                       "generate_signal_report"}
          /\ Pending(call)
          /\ trades \in SeqsUpTo(AttributedTrades, MaxTradesLen)
    /\ NoIncome /\ NoReturns /\ NoCurve /\ NoPnl /\ NoDaily /\ NoRanking /\ NoOrders

NextSignal ==
    \/ ConfidenceCall
    \/ DirectionCall
    \/ ExitReasonCall
    \/ SignalSourceCall
    \/ SignalReportCall

SpecSignal == InitSignal /\ [][NextSignal]_vars

\* ------------------------------------------------------------------------
\* TimeAnalyzer and ExecutionAnalyzer.analyze_execution_by_hour
\* ------------------------------------------------------------------------
VN_OFFSET == 7

HoursPerDay == 24

MsPerHour == 3600000

MsPerDay == 86400000

\* datetime.fromtimestamp(ms / 1000, tz=utc).hour
UtcHour(timestamp_ms) == (timestamp_ms \div MsPerHour) % HoursPerDay

\* utc_time.strftime("%Y-%m-%d"): the model names a date by its number of
\* days since 1970-01-01, which orders as the date strings do
UtcDate(timestamp_ms) == timestamp_ms \div MsPerDay

VnHour(timestamp_ms) == (UtcHour(timestamp_ms) + VN_OFFSET) % HoursPerDay

Timestamp(r) == Get(r, "timestamp", 0)

IncomeType(r) == Get(r, "income_type", "None")

Income(r) == Get(r, "income", 0)

IncomeOf(rs) == SumSeq([k \in 1..Len(rs) |-> Income(rs[k])])

AbsIncomeOf(rs) == SumSeq([k \in 1..Len(rs) |-> Abs(Income(rs[k]))])

OfType(rs, type) == SelectSeq(rs, LAMBDA r : IncomeType(r) = type)

\* `for hour in range(24)`: the hours the result is built for, in order
HourRangeFromOne == [n \in 1..(HoursPerDay - 1) |-> n]

HourRange == [n \in 1..HoursPerDay |-> n - 1]

\* --- TimeAnalyzer.analyze_by_hour ---
analyze_by_hour(records) ==
    Return([n \in 1..Len(HourRange) |->
        LET hour == HourRange[n]
            hits == SelectSeq(OfType(records, "REALIZED_PNL"),
                              LAMBDA r : VnHour(Timestamp(r)) = hour)
            wins == Len(SelectSeq(hits, LAMBDA r : Income(r) > 0))
        IN  [hour |-> hour,
             total_pnl |-> Round2(IncomeOf(hits)),
             trade_count |-> Len(hits),
             win_count |-> wins,
             win_rate |-> WinRate(wins, Len(hits))]])

\* --- TimeAnalyzer.analyze_by_day ---
\* the same keys in ascending order
RECURSIVE Ascending(_)
Ascending(S) ==
    IF S = {} THEN <<>>
    ELSE LET m == CHOOSE x \in S : \A y \in S : x <= y
         IN  <<m>> \o Ascending(S \ {m})

\* sorted(keys, reverse=True)
RECURSIVE Descending(_)
Descending(S) ==
    IF S = {} THEN <<>>
    ELSE LET m == CHOOSE x \in S : \A y \in S : y <= x
         IN  <<m>> \o Descending(S \ {m})

\* the records that reach one of the three branches of the loop, and so
\* create the accumulator of their date on first access
Accounted(records) ==
    SelectSeq(records, LAMBDA r :
        IncomeType(r) \in {"REALIZED_PNL", "COMMISSION", "FUNDING_FEE"})

\* daily_stats after the loop: date -> unrounded accumulators
daily_stats(records) ==
    LET counted == Accounted(records)
        keys == {UtcDate(Timestamp(counted[k])) : k \in 1..Len(counted)}
    IN  [date \in keys |->
            LET day == SelectSeq(counted, LAMBDA r : UtcDate(Timestamp(r)) = date)
                realized == OfType(day, "REALIZED_PNL")
            IN  [gross_pnl |-> IncomeOf(realized),
                 commission |-> AbsIncomeOf(OfType(day, "COMMISSION")),
                 funding |-> IncomeOf(OfType(day, "FUNDING_FEE")),
                 trades |-> Len(realized),
                 wins |-> Len(SelectSeq(realized, LAMBDA r : Income(r) > 0))]]

analyze_by_day(records) ==
    LET accumulated == daily_stats(records)
        dates == Descending(DOMAIN accumulated)
        entry(date) ==
            LET stats == accumulated[date]
            IN  [date |-> date,
                 gross_pnl |-> Round2(stats.gross_pnl),
                 commission |-> Round2(stats.commission),
                 funding |-> Round2(stats.funding),
                 net_pnl |-> Round2(stats.gross_pnl - stats.commission + stats.funding),
                 trade_count |-> stats.trades,
                 win_count |-> stats.wins,
                 win_rate |-> WinRate(stats.wins, stats.trades)]
    IN  Return([k \in 1..Len(dates) |-> entry(dates[k])])

\* --- ExecutionAnalyzer.analyze_execution_by_hour ---
\* abs(quantity * price), price in units of 0.001
Volume(t) == Abs(Get(t, "quantity", 0) * Get(t, "price", 0))

Commission(t) == Abs(Get(t, "commission", 0))

analyze_execution_by_hour(ts) ==
    Return([n \in 1..Len(HourRange) |->
        LET hour == HourRange[n]
            hits == SelectSeq(ts, LAMBDA t :
                        Timestamp(t) # 0 /\ VnHour(Timestamp(t)) = hour)
            volume == SumSeq([k \in 1..Len(hits) |-> Volume(hits[k])])
            commission == SumSeq([k \in 1..Len(hits) |-> Commission(hits[k])])
        IN  [hour |-> hour,
             trade_count |-> Len(hits),
             volume |-> Round2(volume),
             \* round(commission, 4), in units of 0.0001
             commission |-> 10 * commission,
             \* round(commission / volume * 100, 4), in units of 0.0001
             effective_fee_pct |->
                 IF volume > 0 THEN RoundHalfEven(commission * 1000000, volume)
                 ELSE 0]])

ByHourCall == Finish("analyze_by_hour", analyze_by_hour(income_records))

ByDayCall == Finish("analyze_by_day", analyze_by_day(income_records))

ExecutionByHourCall ==
    Finish("analyze_execution_by_hour", analyze_execution_by_hour(trades))

\* --- the records handed to the time-bucketed analyzers ---
\* absent, 0, 1970-01-01 17:00:00.005 UTC, 1970-01-02 20:00 UTC
TimestampOpts == Opt({0, 17 * MsPerHour + 5, MsPerDay + 20 * MsPerHour})

IncomeRecords ==
    {("income_type" :> ty) @@ Entry("timestamp", ts) @@ Entry("income", inc) :
        ty \in {"REALIZED_PNL", "COMMISSION", "FUNDING_FEE"},
        ts \in TimestampOpts, inc \in Opt({-1996, 3000})}

ExecutedTrades ==
    {Entry("timestamp", ts) @@ ("quantity" :> q) @@ Entry("price", pr)
        @@ Entry("commission", c) :
        ts \in TimestampOpts, q \in {-1, 2}, pr \in Opt({1504}), c \in Opt({-2})}

\* --- claims about the time-bucketed aggregations ---
\* the local hour of a timestamp: shift by the offset, then take the hour
LocalHour(timestamp_ms) ==
    ((timestamp_ms + VN_OFFSET * MsPerHour) \div MsPerHour) % HoursPerDay

\* how many input records fall into local hour h
RecordsInHour(h) ==
    IF call = "analyze_by_hour"
    THEN Cardinality({k \in 1..Len(income_records) :
            /\ IncomeType(income_records[k]) = "REALIZED_PNL"
            /\ LocalHour(Timestamp(income_records[k])) = h})
    ELSE Cardinality({k \in 1..Len(trades) :
            /\ Timestamp(trades[k]) # 0
            /\ LocalHour(Timestamp(trades[k])) = h})

\* C1: both hourly aggregations return, for every input list, exactly 24
\* entries whose hour fields are 0..23 in order; an entry counts the records
\* of its hour and is zero-filled when the hour received no record.
HourlyAlways24 ==
    (call \in {"analyze_by_hour", "analyze_execution_by_hour"} /\ pc = "done") =>
        /\ Returned(result)
        /\ Len(result.value) = 24
        /\ \A h \in 0..23 :
              LET entry == result.value[h + 1]
              IN  /\ entry.hour = h
                  /\ entry.trade_count = RecordsInHour(h)
                  /\ RecordsInHour(h) = 0 =>
                        IF call = "analyze_by_hour"
                        THEN entry = [hour |-> h, total_pnl |-> 0, trade_count |-> 0,
                                      win_count |-> 0, win_rate |-> 0]
                        ELSE entry = [hour |-> h, trade_count |-> 0, volume |-> 0,
                                      commission |-> 0, effective_fee_pct |-> 0]

\* an hourly report in which an evening-UTC record wrapped into local hour 0
HourlyWrappedReturned ==
    /\ call \in {"analyze_by_hour", "analyze_execution_by_hour"}
    /\ pc = "done"
    /\ Len(result.value) = 24
    /\ result.value[1].trade_count = 1
    /\ result.value[4].trade_count = 1
    /\ result.value[24].trade_count = 0

FalsyTimestamp(r) == Timestamp(r) = 0

\* C4: records whose timestamp is 0 or absent are excluded from every
\* time-bucketed aggregation: the result is the one obtained without them.
FalsyTimestampExcluded ==
    /\ (call = "analyze_by_hour" /\ pc = "done") =>
          result = analyze_by_hour(
                       SelectSeq(income_records, LAMBDA r : ~FalsyTimestamp(r)))
    /\ (call = "analyze_by_day" /\ pc = "done") =>
          result = analyze_by_day(
                       SelectSeq(income_records, LAMBDA r : ~FalsyTimestamp(r)))
    /\ (call = "analyze_execution_by_hour" /\ pc = "done") =>
          result = analyze_execution_by_hour(
                       SelectSeq(trades, LAMBDA t : ~FalsyTimestamp(t)))

InitTime ==
    /\ \/ /\ call \in {"analyze_by_hour", "analyze_by_day"}
          /\ Pending(call)
          /\ income_records \in SeqsUpTo(IncomeRecords, MaxRecordsLen)
          /\ NoTrades
       \/ /\ Pending("analyze_execution_by_hour")
          /\ trades \in SeqsUpTo(ExecutedTrades, MaxTradesLen)
          /\ NoIncome
    /\ NoReturns /\ NoCurve /\ NoPnl /\ NoDaily /\ NoRanking /\ NoOrders

NextTime == ByHourCall \/ ByDayCall \/ ExecutionByHourCall

SpecTime == InitTime /\ [][NextTime]_vars

\* ------------------------------------------------------------------------
\* RiskAnalyzer.calculate_trade_stats
\* ------------------------------------------------------------------------
\* pnl_list = [t.get("realized_pnl", 0) for t in trades]
PnlList(ts) == [k \in 1..Len(ts) |-> Pnl(ts[k])]

Winners(pnls) == SelectSeq(pnls, LAMBDA p : p > 0)

LosersWithZero(pnls) == SelectSeq(pnls, LAMBDA p : p <= 0)

Losers(pnls) == SelectSeq(pnls, LAMBDA p : p < 0)

GrossProfit(winners) == IF winners # <<>> THEN SumSeq(winners) ELSE 0

GrossLoss(losers) == IF losers # <<>> THEN Abs(SumSeq(losers)) ELSE 0

\* a raw ratio is a fraction <<num, den>>, den > 0; float('inf') is <<1, 0>>
InfRatio == <<1, 0>>

\* gross_profit / gross_loss if gross_loss > 0 else float('inf')
ProfitFactor(gross_profit, gross_loss) ==
    IF gross_loss > 0 THEN <<gross_profit, gross_loss>> ELSE InfRatio

\* avg_win / avg_loss if avg_loss > 0 else float('inf'), with
\* avg_win = gross_profit / len(winners) (0 without winners) and
\* avg_loss = gross_loss / len(losers) (0 without losers)
RiskReward(gross_profit, wins, gross_loss, losses) ==
    IF losses > 0 /\ gross_loss > 0
    THEN IF wins > 0 THEN <<gross_profit * losses, gross_loss * wins>>
         ELSE <<0, 1>>
    ELSE InfRatio

\* round(min(ratio, 99.99), 2), in hundredths
Clamp99ZeroWhenUnbounded(ratio) ==
    IF ratio[2] = 0 THEN 0
    ELSE IF 100 * ratio[1] >= 9999 * ratio[2] THEN 9999
    ELSE RoundHalfEven(100 * ratio[1], ratio[2])

Clamp99(ratio) ==
    IF ratio[2] = 0 \/ 100 * ratio[1] >= 9999 * ratio[2] THEN 9999
    ELSE RoundHalfEven(100 * ratio[1], ratio[2])

\* expectancy = win_rate/100 * avg_win - loss_rate/100 * avg_loss with
\* loss_rate = 100 - win_rate, as the fraction
\*   gross_profit / n - (n - wins) * gross_loss / (n * losses)
Expectancy(n, gross_profit, wins, gross_loss, losses) ==
    IF losses > 0
    THEN <<gross_profit * losses - (n - wins) * gross_loss, n * losses>>
    ELSE <<gross_profit, n>>

\* round(f, 4) of a fraction of amounts, in units of 0.0001
Round4Frac(f) == RoundHalfEven(10 * f[1], f[2])

RECURSIVE MaxOf(_)
MaxOf(s) == IF Len(s) = 1 THEN s[1] ELSE Max2(s[1], MaxOf(Tail(s)))

MinOf(s) == -MaxOf([k \in 1..Len(s) |-> -s[k]])

\* _calculate_streaks as a function: the loop folded over the list
RECURSIVE StreakFold(_)
StreakFold(pnls) ==
    IF pnls = <<>> THEN <<0, 0, 0, 0>>
    ELSE LET before == StreakFold(SubSeq(pnls, 1, Len(pnls) - 1))
         IN  StreakStep(pnls[Len(pnls)], before[1], before[2], before[3], before[4])

calculate_streaks(pnls) ==
    LET s == StreakFold(pnls)
    IN  [max_win_streak |-> s[3],
         max_loss_streak |-> s[4],
         current_streak |-> CurrentStreak(s[1], s[2])]

\* the empty mapping {} is the empty function
calculate_trade_stats(ts) ==
    IF ts = <<>> THEN <<>>
    ELSE
      LET pnls == PnlList(ts)
          winners == Winners(pnls)
          losers == Losers(pnls)
          gross_profit == GrossProfit(winners)
          gross_loss == GrossLoss(losers)
          streaks == calculate_streaks(pnls)
      IN  [total_trades |-> Len(pnls),
           winning_trades |-> Len(winners),
           losing_trades |-> Len(losers),
           win_rate |-> RoundHalfEven(Len(winners) * 1000, Len(pnls)),
           gross_profit |-> Round2(gross_profit),
           gross_loss |-> Round2(gross_loss),
           net_profit |-> Round2(gross_profit - gross_loss),
           avg_win |-> IF winners # <<>>
                       THEN Round4Frac(<<gross_profit, Len(winners)>>) ELSE 0,
           avg_loss |-> IF losers # <<>>
                        THEN Round4Frac(<<gross_loss, Len(losers)>>) ELSE 0,
           profit_factor |-> Clamp99(ProfitFactor(gross_profit, gross_loss)),
           risk_reward_ratio |->
               Clamp99(RiskReward(gross_profit, Len(winners),
                                  gross_loss, Len(losers))),
           expectancy_per_trade |->
               Round4Frac(Expectancy(Len(pnls), gross_profit, Len(winners),
                                     gross_loss, Len(losers))),
           largest_win |-> Round2(IF winners # <<>> THEN MaxOf(winners) ELSE 0),
           largest_loss |-> Round2(IF losers # <<>> THEN MinOf(losers) ELSE 0),
           max_win_streak |-> streaks.max_win_streak,
           max_loss_streak |-> streaks.max_loss_streak,
           current_streak |-> streaks.current_streak]

TradeStatsCall ==
    Finish("calculate_trade_stats", Return(calculate_trade_stats(trades)))

\* trades with realized_pnl 10.0, -5.0, -0.04, 0 or absent
StatsTrades == {Entry("realized_pnl", p) : p \in Opt({-5000, -40, 0, 10000})}

\* --- reference notions for the trade statistics claims ---
TradeStatsDone == call = "calculate_trade_stats" /\ pc = "done"

WinIndexes == {k \in 1..Len(trades) : Pnl(trades[k]) > 0}

LossIndexes == {k \in 1..Len(trades) : Pnl(trades[k]) < 0}

SumOfWins == SumSeq([k \in 1..Len(trades) |->
                        IF Pnl(trades[k]) > 0 THEN Pnl(trades[k]) ELSE 0])

SumOfLosses == SumSeq([k \in 1..Len(trades) |->
                          IF Pnl(trades[k]) < 0 THEN -Pnl(trades[k]) ELSE 0])

\* C11: for a non-empty trade list profit_factor and risk_reward_ratio are
\* at most 99.99, and both are exactly 99.99 when the gross loss (and so the
\* average loss) is 0, i.e. when no trade has a negative pnl, whether or not
\* there is a winner.
RatiosClampedAt9999 ==
    (TradeStatsDone /\ trades # <<>>) =>
        /\ result.value.profit_factor <= 9999
        /\ result.value.risk_reward_ratio <= 9999
        /\ (SumOfLosses = 0) =>
              /\ result.value.profit_factor = 9999
              /\ result.value.risk_reward_ratio = 9999

AllZeroPnlClamped ==
    /\ TradeStatsDone
    /\ Len(trades) >= 2
    /\ \A k \in 1..Len(trades) : Pnl(trades[k]) = 0
    /\ result.value.gross_profit = 0
    /\ result.value.profit_factor = 9999
    /\ result.value.risk_reward_ratio = 9999

ExpectancyIsNetPerTrade ==
    (TradeStatsDone /\ trades # <<>>) =>
        result.value.expectancy_per_trade =
            Round4Frac(<<SumOfWins - SumOfLosses, Len(trades)>>)

InitTradeStats ==
    /\ Pending("calculate_trade_stats")
    /\ trades \in SeqsUpTo(StatsTrades, MaxStatsLen)
    /\ NoIncome /\ NoReturns /\ NoCurve /\ NoPnl /\ NoDaily /\ NoRanking /\ NoOrders

NextTradeStats == TradeStatsCall

SpecTradeStats == InitTradeStats /\ [][NextTradeStats]_vars

\* ------------------------------------------------------------------------
\* RiskAnalyzer.calculate_sharpe_ratio
\* ------------------------------------------------------------------------
\* n * (n - 1) * variance = n * sum(r^2) - sum(r)^2 (Bessel-corrected)
VarianceNumerator(returns) ==
    Len(returns) * SumSquares(returns) - SumSeq(returns) * SumSeq(returns)

calculate_sharpe_ratio(returns, rf, af) ==
    IF Len(returns) < 2 THEN Zero
    ELSE
      LET n == Len(returns)
          excess == ExcessNumerator(returns, rf, af)
          spread == VarianceNumerator(returns)
      IN  IF spread = 0 THEN Zero
          \* (excess / std_dev * sqrt(af))^2
          \*   = excess^2 * (n - 1) / (n * af * spread)
          ELSE RoundedRatio(Sign(excess), excess * excess * (n - 1),
                            n * af * spread)

SharpeCall ==
    Finish("calculate_sharpe_ratio",
           Return(calculate_sharpe_ratio(daily_returns, risk_free_rate,
                                         annualization_factor)))

\* returns two orders of magnitude larger than their mean
WideReturns == {-100, 0, 101}

\* --- reference notions for the Sharpe claim ---
SharpeDone == call = "calculate_sharpe_ratio" /\ pc = "done"

\* the sample standard deviation is 0: all observations are equal
NoDispersion ==
    \A j, k \in 1..Len(daily_returns) : daily_returns[j] = daily_returns[k]

SignOfRatio(r) == IF r = Zero THEN 0 ELSE IF r = Inf THEN 1 ELSE r.sign

\* sign of mean return - risk_free_rate / annualization_factor
SignOfExcess ==
    Sign(SumSeq(daily_returns) * annualization_factor
            - risk_free_rate * Len(daily_returns))

\* C14: the Sharpe ratio is 0 for fewer than 2 observations or a sample
\* standard deviation of 0, and whenever the standard deviation is > 0 the
\* sign of the returned ratio is the sign of the excess return.
SharpeSignMatchesExcess ==
    SharpeDone =>
        /\ (Len(daily_returns) < 2 \/ NoDispersion) => result.value = Zero
        /\ (Len(daily_returns) >= 2 /\ ~NoDispersion) =>
              SignOfRatio(result.value) = SignOfExcess

\* what the rounding leaves of the sign relation: the returned ratio never
\* has the sign opposite to the excess return
SharpeSignNeverOpposite ==
    SharpeDone => SignOfRatio(result.value) * SignOfExcess >= 0

InitSharpe ==
    /\ Pending("calculate_sharpe_ratio")
    /\ \/ /\ daily_returns \in SeqsUpTo(ReturnValues, MaxReturnsLen)
          /\ risk_free_rate \in RiskFreeRates
          /\ annualization_factor \in AnnualizationFactors
       \/ /\ daily_returns \in SeqsUpTo(WideReturns, MaxReturnsLen)
          /\ risk_free_rate = 0
          /\ annualization_factor = 1
    /\ NoIncome /\ NoTrades /\ NoCurve /\ NoPnl /\ NoDaily /\ NoRanking /\ NoOrders

NextSharpe == SharpeCall

SpecSharpe == InitSharpe /\ [][NextSharpe]_vars

\* ------------------------------------------------------------------------
\* RegimeAnalyzer
\* ------------------------------------------------------------------------
\* daily net pnl is held in whole dollars, so sums and squares are exact
NetPnls(days) == [k \in 1..Len(days) |-> Get(days[k], "net_pnl", 0)]

\* the minimum number of daily observations
MinDays == 5

\* base_capital, the reference capital of the percentage
BaseCapital == 100

RECURSIVE GCD(_, _)
GCD(a, b) == IF b = 0 THEN a ELSE GCD(b, a % b)

Reduce(f) == LET g == GCD(f[1], f[2]) IN <<f[1] \div g, f[2] \div g>>

\* round(sqrt(num / den), 2) in hundredths: the largest h with
\* (2h - 1)^2 * den <= 4 * 100^2 * num, found by bisection of lo..hi
RECURSIVE RootSearch(_, _, _, _)
RootSearch(num, den, lo, hi) ==
    IF lo = hi THEN lo
    ELSE LET mid == (lo + hi + 1) \div 2
         IN  IF (2 * mid - 1) * (2 * mid - 1) * den <= 40000 * num
             THEN RootSearch(num, den, mid, hi)
             ELSE RootSearch(num, den, lo, mid - 1)

RoundedRoot(f) == LET g == Reduce(f) IN RootSearch(g[1], g[2], 0, 1023)

\* --- detect_volatility_regime ---
\* the class of volatility_pct, given its square as a fraction
VolatilityClassInclusive(sq) ==
    IF sq[1] <= sq[2] THEN "LOW_VOLATILITY"
    ELSE IF sq[1] <= 9 * sq[2] THEN "NORMAL_VOLATILITY"
    ELSE "HIGH_VOLATILITY"

VolatilityClass(sq) ==
    IF sq[1] < sq[2] THEN "LOW_VOLATILITY"
    ELSE IF sq[1] < 9 * sq[2] THEN "NORMAL_VOLATILITY"
    ELSE "HIGH_VOLATILITY"

VolatilityDescription(regime) ==
    CASE regime = "LOW_VOLATILITY" -> "Calm market, smaller moves"
      [] regime = "NORMAL_VOLATILITY" -> "Standard market conditions"
      [] OTHER -> "Elevated volatility, larger moves"

detect_volatility_regime(days) ==
    IF Len(days) < MinDays
    THEN [regime |-> "INSUFFICIENT_DATA", volatility |-> 0]
    ELSE
      LET pnl_values == NetPnls(days)
          n == Len(pnl_values)
          \* variance = spread / (n * (n - 1))
          spread == VarianceNumerator(pnl_values)
          \* volatility_pct^2 = variance / base_capital^2 * 100^2
          sq == <<spread * 100 * 100, n * (n - 1) * BaseCapital * BaseCapital>>
          regime == VolatilityClass(sq)
      IN  [regime |-> regime,
           volatility_pct |-> RoundedRoot(sq),
           std_dev_usd |-> RoundedRoot(<<spread, n * (n - 1)>>),
           description |-> VolatilityDescription(regime),
           days_analyzed |-> n]

\* --- detect_trend_regime ---
PositiveDays(pnl_values) == Len(SelectSeq(pnl_values, LAMBDA p : p > 0))

NegativeDays(pnl_values) == Len(SelectSeq(pnl_values, LAMBDA p : p < 0))

\* the class of consistency = most / total_directional * 100
TrendClassStrict(most, total_directional) ==
    IF 100 * most > 70 * total_directional THEN "STRONG_TREND"
    ELSE IF 100 * most > 55 * total_directional THEN "WEAK_TREND"
    ELSE "RANGING"

TrendClass(most, total_directional) ==
    IF 100 * most >= 70 * total_directional THEN "STRONG_TREND"
    ELSE IF 100 * most >= 55 * total_directional THEN "WEAK_TREND"
    ELSE "RANGING"

DominantDirection(positive_days, negative_days) ==
    IF positive_days > negative_days THEN "BULLISH" ELSE "BEARISH"

TrendDirection(cumulative_pnl) ==
    IF cumulative_pnl > 0 THEN "UP"
    ELSE IF cumulative_pnl < 0 THEN "DOWN" ELSE "FLAT"

detect_trend_regime(days) ==
    IF Len(days) < MinDays THEN [regime |-> "INSUFFICIENT_DATA"]
    ELSE
      LET pnl_values == NetPnls(days)
          positive_days == PositiveDays(pnl_values)
          negative_days == NegativeDays(pnl_values)
          total_directional == positive_days + negative_days
          most == Max2(positive_days, negative_days)
          cumulative_pnl == SumSeq(pnl_values)
      IN  IF total_directional = 0
          THEN [regime |-> "FLAT", direction |-> "NEUTRAL"]
          ELSE [regime |-> TrendClass(most, total_directional),
                direction |-> DominantDirection(positive_days, negative_days),
                trend_direction |-> TrendDirection(cumulative_pnl),
                \* round(consistency, 1), in tenths of a percent
                consistency_pct |-> RoundHalfEven(1000 * most, total_directional),
                positive_days |-> positive_days,
                negative_days |-> negative_days,
                cumulative_pnl |-> cumulative_pnl]

\* --- binary64 arithmetic of the win-rate comparison ---
\* A win rate wins / n * 100 is a double: the quotient is rounded to 53
\* significant bits, and so is the product.  A natural number is a sequence
\* of bits, most significant first; a non-negative double is the record
\* [m |-> bits, e |-> exponent] of value m * 2^e, m without leading or
\* trailing zero bits and of at most Precision bits.
Precision == 53

\* fraction bits produced by a division before the sticky bit
FractionPlaces == 64

Last(b) == b[Len(b)]

Zeros(n) == [k \in 1..n |-> 0]

\* b with leading zeros up to length n
PadTo(b, n) == Zeros(n - Len(b)) \o b

OneIndexes(b) == {k \in 1..Len(b) : b[k] = 1}

StripZeros(b) ==
    IF OneIndexes(b) = {} THEN <<>>
    ELSE LET first == CHOOSE k \in OneIndexes(b) : \A j \in OneIndexes(b) : k <= j
         IN  SubSeq(b, first, Len(b))

RECURSIVE NatToBits(_)
NatToBits(n) == IF n = 0 THEN <<>> ELSE Append(NatToBits(n \div 2), n % 2)

RECURSIVE BitsToNat(_)
BitsToNat(b) ==
    IF b = <<>> THEN 0 ELSE 2 * BitsToNat(SubSeq(b, 1, Len(b) - 1)) + Last(b)

\* a + b: the carry into a position comes from the nearest lower position
\* where both bits are 1, through positions where one of them is
AddBits(a, b) ==
    LET n == Max2(Len(a), Len(b)) + 1
        x == PadTo(a, n)
        y == PadTo(b, n)
        carry(k) == IF \E j \in (k + 1)..n :
                           /\ x[j] + y[j] = 2
                           /\ \A h \in (k + 1)..(j - 1) : x[h] + y[h] = 1
                    THEN 1 ELSE 0
    IN  [k \in 1..n |-> (x[k] + y[k] + carry(k)) % 2]

\* a - b for a >= b: the borrow from a position is asked by the nearest
\* lower position where a has 0 and b has 1, through positions where the
\* bits are equal
SubBits(a, b) ==
    LET n == Max2(Len(a), Len(b))
        x == PadTo(a, n)
        y == PadTo(b, n)
        borrow(k) == IF \E j \in (k + 1)..n :
                            /\ x[j] < y[j]
                            /\ \A h \in (k + 1)..(j - 1) : x[h] = y[h]
                     THEN 1 ELSE 0
    IN  [k \in 1..n |-> (x[k] - y[k] - borrow(k) + 2) % 2]

\* a < b as numbers
BitsLess(a, b) ==
    LET n == Max2(Len(a), Len(b))
        x == PadTo(a, n)
        y == PadTo(b, n)
    IN  \E k \in 1..n : x[k] < y[k] /\ \A j \in 1..(k - 1) : x[j] = y[j]

\* bits * c for a natural number c
RECURSIVE MulBits(_, _)
MulBits(bits, c) ==
    IF c = 0 THEN <<>>
    ELSE LET rest == MulBits(Append(bits, 0), c \div 2)
         IN  IF c % 2 = 1 THEN AddBits(bits, rest) ELSE rest

\* the double m * 2^e in its unique form
Normal(m, e) ==
    IF OneIndexes(m) = {} THEN [m |-> <<>>, e |-> 0]
    ELSE LET s == StripZeros(m)
             last == CHOOSE k \in OneIndexes(s) : \A j \in OneIndexes(s) : j <= k
         IN  [m |-> SubSeq(s, 1, last), e |-> e + Len(s) - last]

\* the double nearest to bits * 2^e, ties to even
RoundToPrecision(bits, e) ==
    LET s == StripZeros(bits)
    IN  IF Len(s) <= Precision THEN Normal(s, e)
        ELSE LET keep == SubSeq(s, 1, Precision)
                 rest == SubSeq(s, Precision + 1, Len(s))
                 sticky == \E k \in 2..Len(rest) : rest[k] = 1
                 up == rest[1] = 1 /\ (sticky \/ keep[Precision] = 1)
             IN  Normal(IF up THEN AddBits(keep, <<1>>) ELSE keep,
                        e + Len(rest))

\* 2^k mod n by repeated squaring
RECURSIVE PowerOfTwoMod(_, _)
PowerOfTwoMod(k, n) ==
    IF k = 0 THEN 1 % n
    ELSE LET half == PowerOfTwoMod(k \div 2, n)
         IN  (half * half * (IF k % 2 = 1 THEN 2 ELSE 1)) % n

\* the first `places` bits of r / n (r < n), then a bit that is 1 when the
\* expansion goes on: the remainder after k bits is r * 2^k mod n
FractionBits(r, n, places) ==
    LET remainder(k) == (r * PowerOfTwoMod(k, n)) % n
    IN  [k \in 1..places |-> IF 2 * remainder(k - 1) >= n THEN 1 ELSE 0]
            \o <<IF remainder(places) = 0 THEN 0 ELSE 1>>

\* k / n of two ints (n > 0)
FloatDiv(k, n) ==
    RoundToPrecision(NatToBits(k \div n) \o FractionBits(k % n, n, FractionPlaces),
                     -(FractionPlaces + 1))

\* x * c of a double and an int
FloatMul(x, c) == RoundToPrecision(MulBits(x.m, c), x.e)

\* x - y of two non-negative doubles: sign and magnitude
FloatSub(x, y) ==
    LET e == IF x.e < y.e THEN x.e ELSE y.e
        a == StripZeros(x.m \o Zeros(x.e - e))
        b == StripZeros(y.m \o Zeros(y.e - e))
    IN  IF BitsLess(a, b)
        THEN [negative |-> TRUE, magnitude |-> RoundToPrecision(SubBits(b, a), e)]
        ELSE [negative |-> FALSE, magnitude |-> RoundToPrecision(SubBits(a, b), e)]

\* x > c for a non-negative double and a natural number
FloatGt(x, c) ==
    IF x.e >= 0 THEN BitsLess(NatToBits(c), x.m \o Zeros(x.e))
    ELSE BitsLess(NatToBits(c) \o Zeros(-x.e), x.m)

\* round(x, 1) of a non-negative double, in tenths, ties to even
RoundTenths(x) ==
    LET p == MulBits(x.m, 10)
    IN  IF x.e >= 0 THEN BitsToNat(p \o Zeros(x.e))
        ELSE LET padded == Zeros(-x.e - Len(p) + 1) \o p
                 whole == SubSeq(padded, 1, Len(padded) + x.e)
                 rest == SubSeq(padded, Len(padded) + x.e + 1, Len(padded))
                 sticky == \E k \in 2..Len(rest) : rest[k] = 1
                 up == rest[1] = 1 /\ (sticky \/ Last(whole) = 1)
             IN  BitsToNat(whole) + (IF up THEN 1 ELSE 0)

\* --- detect_performance_regime ---
\* the default of the window parameter
DefaultWindow == 20

\* all_wins / len(trades) * 100
WinRatePct(wins, count) == FloatMul(FloatDiv(wins, count), 100)

\* trades[-window:] for 0 <= window <= len(trades): -0 is 0, the whole list
RecentTrades(ts, w) == IF w = 0 THEN ts ELSE SubSeq(ts, Len(ts) - w + 1, Len(ts))

\* as many trades as the window still reported as too few
InsufficientTradesInclusive(ts, w) == Len(ts) <= w

\* `if len(trades) < window`
InsufficientTrades(ts, w) == Len(ts) < w

PerformanceClass(deviation) ==
    IF ~deviation.negative /\ FloatGt(deviation.magnitude, 15) THEN "HOT_STREAK"
    ELSE IF deviation.negative /\ FloatGt(deviation.magnitude, 15) THEN "COLD_STREAK"
    ELSE "NORMAL"

RecommendedAction(regime) ==
    CASE regime = "HOT_STREAK" ->
             "Consider reducing position size (reversion expected)"
      [] regime = "COLD_STREAK" -> "Review strategy or wait for normalization"
      [] OTHER -> "Continue standard operation"

detect_performance_regime(ts, w) ==
    IF InsufficientTrades(ts, w) THEN [regime |-> "INSUFFICIENT_DATA"]
    ELSE
      LET historical_wr == WinRatePct(WinsOf(ts), Len(ts))
          recent_trades == RecentTrades(ts, w)
          recent_wr == WinRatePct(WinsOf(recent_trades), Len(recent_trades))
          deviation == FloatSub(recent_wr, historical_wr)
          regime == PerformanceClass(deviation)
      IN  [regime |-> regime,
           \* the rounded rates and deviation, in tenths of a percent
           historical_win_rate |-> RoundTenths(historical_wr),
           recent_win_rate |-> RoundTenths(recent_wr),
           deviation_pct |-> (IF deviation.negative THEN -1 ELSE 1)
                                 * RoundTenths(deviation.magnitude),
           window_size |-> w,
           recommended_action |-> RecommendedAction(regime)]

\* past the guard with no trade at all, `all_wins / len(trades)` divides by
\* zero before anything is returned
PerformanceCall ==
    Finish("detect_performance_regime",
           IF ~InsufficientTrades(trades, window) /\ trades = <<>>
           THEN Raise("ZeroDivisionError")
           ELSE Return(detect_performance_regime(trades, window)))

\* --- generate_regime_report ---
\* ELEVATED needs one of its two tags, the variant needs both
OverallRiskBothTags(regimes) ==
    IF "HIGH_VOLATILITY" \in regimes /\ "COLD_STREAK" \in regimes THEN "ELEVATED"
    ELSE IF "LOW_VOLATILITY" \in regimes /\ "HOT_STREAK" \in regimes THEN "LOW"
    ELSE "NORMAL"

OverallRisk(regimes) ==
    IF "HIGH_VOLATILITY" \in regimes \/ "COLD_STREAK" \in regimes THEN "ELEVATED"
    ELSE IF "LOW_VOLATILITY" \in regimes /\ "HOT_STREAK" \in regimes THEN "LOW"
    ELSE "NORMAL"

OverallAction(risk) ==
    CASE risk = "ELEVATED" -> "Consider reducing exposure"
      [] risk = "LOW" -> "Favorable conditions"
      [] OTHER -> "Standard operation"

\* generated_at (the wall clock) is not part of the modelled value
generate_regime_report(days, ts) ==
    LET volatility == detect_volatility_regime(days)
        trend == detect_trend_regime(days)
        performance == detect_performance_regime(ts, DefaultWindow)
        regimes == {volatility.regime, trend.regime, performance.regime}
        overall_risk == OverallRisk(regimes)
    IN  [volatility_regime |-> volatility,
         trend_regime |-> trend,
         performance_regime |-> performance,
         overall_assessment |-> [risk_level |-> overall_risk,
                                 recommended_action |-> OverallAction(overall_risk)]]

RegimeReportCall ==
    Finish("generate_regime_report",
           Return(generate_regime_report(daily_pnl, trades)))

VolatilityCall ==
    Finish("detect_volatility_regime", Return(detect_volatility_regime(daily_pnl)))

TrendCall ==
    Finish("detect_trend_regime", Return(detect_trend_regime(daily_pnl)))

\* --- the daily results handed to the regime detector ---
DailyResults == {Entry("net_pnl", p) : p \in Opt({-3, -1, 0, 1, 3})}

Days(pnl_values) == [k \in 1..Len(pnl_values) |-> [net_pnl |-> pnl_values[k]]]

\* the 7-day scenario series
ScenarioSeries == Days(<<5, -3, 4, -2, 6, -1, 3>>)

Repeat(x, n) == [k \in 1..n |-> x]

\* a run of gaining days followed by a run of losing days
DayRuns ==
    {Days(Repeat(1, a) \o Repeat(-1, b)) : a, b \in 0..MaxRunLen}

\* --- reference notions for the regime claims ---
VolatilityDone == call = "detect_volatility_regime" /\ pc = "done"

TrendDone == call = "detect_trend_regime" /\ pc = "done"

DayPnl(k) == Get(daily_pnl[k], "net_pnl", 0)

\* n^2 * (n - 1) * (sample variance) = sum over the days of (n * p - sum)^2
ScaledDeviations ==
    LET n == Len(daily_pnl)
        total == SumSeq([k \in 1..n |-> DayPnl(k)])
    IN  SumSeq([k \in 1..n |-> (n * DayPnl(k) - total) * (n * DayPnl(k) - total)])

\* the standard deviation, a percentage of the capital 100, is below t
VolatilityBelow(t) ==
    LET n == Len(daily_pnl)
    IN  ScaledDeviations < t * t * n * n * (n - 1)

\* C15: fewer than 5 daily observations give INSUFFICIENT_DATA; otherwise
\* with v the sample standard deviation of the daily net pnl as a percentage
\* of the capital 100 the regime is LOW_VOLATILITY iff v < 1,
\* NORMAL_VOLATILITY iff 1 <= v < 3 and HIGH_VOLATILITY iff v >= 3; the
\* series [5,-3,4,-2,6,-1,3] is HIGH_VOLATILITY.
VolatilityRegimeByThreshold ==
    VolatilityDone =>
        LET regime == result.value.regime
        IN  /\ (Len(daily_pnl) < 5) <=> (regime = "INSUFFICIENT_DATA")
            /\ (Len(daily_pnl) >= 5) =>
                  /\ (regime = "LOW_VOLATILITY") <=> VolatilityBelow(1)
                  /\ (regime = "NORMAL_VOLATILITY") <=>
                         (~VolatilityBelow(1) /\ VolatilityBelow(3))
                  /\ (regime = "HIGH_VOLATILITY") <=> ~VolatilityBelow(3)
            /\ (daily_pnl = ScenarioSeries) => regime = "HIGH_VOLATILITY"

ScenarioHighVolatility ==
    /\ VolatilityDone
    /\ daily_pnl = ScenarioSeries
    /\ result.value.regime = "HIGH_VOLATILITY"
    /\ result.value.volatility_pct = 364

VolatilityOnBoundary ==
    /\ VolatilityDone
    /\ Len(daily_pnl) >= 5
    /\ ~VolatilityBelow(1)
    /\ ScaledDeviations = Len(daily_pnl) * Len(daily_pnl) * (Len(daily_pnl) - 1)
    /\ result.value.regime = "NORMAL_VOLATILITY"

PositiveDayIndexes == {k \in 1..Len(daily_pnl) : DayPnl(k) > 0}

NegativeDayIndexes == {k \in 1..Len(daily_pnl) : DayPnl(k) < 0}

\* consistency >= t percent, over the days with non-zero pnl
ConsistencyAtLeast(t) ==
    LET p == Cardinality(PositiveDayIndexes)
        q == Cardinality(NegativeDayIndexes)
    IN  100 * (IF p > q THEN p ELSE q) >= t * (p + q)

DirectionByDayMajority ==
    (TrendDone /\ "direction" \in DOMAIN result.value
               /\ result.value.regime # "FLAT") =>
        LET p == Cardinality(PositiveDayIndexes)
            q == Cardinality(NegativeDayIndexes)
            total == SumSeq([k \in 1..Len(daily_pnl) |-> DayPnl(k)])
        IN  /\ (result.value.direction = "BULLISH") <=> (p > q)
            /\ (result.value.direction = "BEARISH") <=> (q > p)
            /\ result.value.trend_direction =
                   IF total > 0 THEN "UP" ELSE IF total < 0 THEN "DOWN" ELSE "FLAT"

\* the two direction signals of one result disagree
BullishButDown ==
    /\ TrendDone
    /\ "direction" \in DOMAIN result.value
    /\ result.value.direction = "BULLISH"
    /\ result.value.trend_direction = "DOWN"

\* --- the trades handed to the regime detector ---
Wins(n) == Repeat([realized_pnl |-> 1], n)

Losses(n) == Repeat([realized_pnl |-> -1], n)

\* three runs of alternating outcome
TradeRuns ==
    {Wins(a) \o Losses(b) \o Wins(c) : a, b, c \in 0..MaxRunLen}
        \cup {Losses(a) \o Wins(b) \o Losses(c) : a, b, c \in 0..MaxRunLen}

\* trades with realized_pnl -1, 0, 1 or absent
OutcomeTrades == {Entry("realized_pnl", p) : p \in Opt({-1, 0, 1})}

Windows == {4, 5, DefaultWindow}

\* --- reference notions for the performance regime claim ---
PerformanceDone == call = "detect_performance_regime" /\ pc = "done"

WonBetween(from, to) ==
    Cardinality({k \in from..to : Pnl(trades[k]) > 0})

\* (win rate of the last `window` trades - win rate of all trades), in
\* percentage points, exceeds t: recent/window - all/n > t/100
DeviationAbove(t) ==
    LET n == Len(trades)
        recent == WonBetween(n - window + 1, n)
        all == WonBetween(1, n)
    IN  100 * (recent * n - all * window) > t * window * n

DeviationBelow(t) ==
    LET n == Len(trades)
        recent == WonBetween(n - window + 1, n)
        all == WonBetween(1, n)
    IN  100 * (recent * n - all * window) < t * window * n

\* C18: fewer trades than window give INSUFFICIENT_DATA; otherwise the
\* regime is HOT_STREAK iff the deviation of the recent win rate from the
\* all-time win rate is > 15 percentage points, COLD_STREAK iff it is
\* < -15, and NORMAL otherwise, a deviation of exactly +15 or -15 included.
PerformanceRegimeByDeviation ==
    PerformanceDone =>
        LET regime == result.value.regime
        IN  /\ (Len(trades) < window) <=> (regime = "INSUFFICIENT_DATA")
            /\ (Len(trades) >= window) =>
                  /\ (regime = "HOT_STREAK") <=> DeviationAbove(15)
                  /\ (regime = "COLD_STREAK") <=> DeviationBelow(-15)
                  /\ (regime = "NORMAL") <=>
                         (~DeviationAbove(15) /\ ~DeviationBelow(-15))

\* the classification away from the boundary: when the deviation is not
\* exactly +15 or -15 the regime is the one the thresholds give
PerformanceRegimeOffBoundary ==
    (PerformanceDone /\ Len(trades) >= window
        /\ (DeviationAbove(15) \/ DeviationBelow(15))
        /\ (DeviationAbove(-15) \/ DeviationBelow(-15))) =>
        result.value.regime =
            IF DeviationAbove(15) THEN "HOT_STREAK"
            ELSE IF DeviationBelow(-15) THEN "COLD_STREAK" ELSE "NORMAL"

\* C29: when the number of trades equals window (window >= 1) the trailing
\* window is the whole history, so the regime is NORMAL with deviation 0;
\* HOT_STREAK and COLD_STREAK are returned only for more trades than window.
WholeHistoryIsNormal ==
    PerformanceDone =>
        /\ (Len(trades) = window /\ window >= 1) =>
              /\ result.value.regime = "NORMAL"
              /\ result.value.deviation_pct = 0
              /\ result.value.recent_win_rate = result.value.historical_win_rate
        /\ (result.value.regime \in {"HOT_STREAK", "COLD_STREAK"}) =>
              Len(trades) > window

\* a history of exactly the default window, wins and losses mixed
WindowCoversMixedHistory ==
    /\ PerformanceDone
    /\ window = DefaultWindow
    /\ Len(trades) = window
    /\ WonBetween(1, window) \in 1..(window - 1)
    /\ result.value.regime = "NORMAL"
    /\ result.value.window_size = window

\* one trade more than the window and a streak is reported
StreakJustPastWindow ==
    /\ PerformanceDone
    /\ Len(trades) = window + 1
    /\ result.value.regime \in {"HOT_STREAK", "COLD_STREAK"}

\* --- the inputs of the regime report ---
\* days alternating between a gain and a loss of the same amount
AlternatingDays ==
    {Days([k \in 1..n |-> IF k % 2 = 1 THEN x ELSE -x]) :
        x \in {0, 1, 3}, n \in 0..MaxDaysLen}

\* a lead-in run followed by nothing or by a full window of the other outcome
ReportTrades ==
    {Wins(a) \o Losses(b) : a \in 0..MaxRunLen, b \in {0, DefaultWindow}}
        \cup {Losses(a) \o Wins(b) : a \in 0..MaxRunLen, b \in {0, DefaultWindow}}

\* --- reference notions for the report claim ---
RegimeReportDone == call = "generate_regime_report" /\ pc = "done"

RegimeTags ==
    {result.value.volatility_regime.regime,
     result.value.trend_regime.regime,
     result.value.performance_regime.regime}

ElevatedCondition == "HIGH_VOLATILITY" \in RegimeTags \/ "COLD_STREAK" \in RegimeTags

LowCondition == "LOW_VOLATILITY" \in RegimeTags /\ "HOT_STREAK" \in RegimeTags

\* C19: the overall risk_level is ELEVATED iff HIGH_VOLATILITY or
\* COLD_STREAK is among the three regime tags, LOW iff LOW_VOLATILITY and
\* HOT_STREAK are both present, NORMAL in every other case; the ELEVATED
\* and LOW conditions never hold together.
OverallRiskByTags ==
    RegimeReportDone =>
        LET risk == result.value.overall_assessment.risk_level
        IN  /\ (risk = "ELEVATED") <=> ElevatedCondition
            /\ (risk = "LOW") <=> LowCondition
            /\ (risk = "NORMAL") <=> (~ElevatedCondition /\ ~LowCondition)
            /\ ~(ElevatedCondition /\ LowCondition)

LowRiskReported ==
    /\ RegimeReportDone
    /\ result.value.volatility_regime.regime = "LOW_VOLATILITY"
    /\ result.value.performance_regime.regime = "HOT_STREAK"
    /\ result.value.overall_assessment.risk_level = "LOW"

ElevatedByColdStreakAlone ==
    /\ RegimeReportDone
    /\ result.value.volatility_regime.regime = "LOW_VOLATILITY"
    /\ result.value.performance_regime.regime = "COLD_STREAK"
    /\ result.value.overall_assessment.risk_level = "ELEVATED"

NormalOnInsufficientData ==
    /\ RegimeReportDone
    /\ result.value.volatility_regime.regime = "INSUFFICIENT_DATA"
    /\ result.value.trend_regime.regime = "INSUFFICIENT_DATA"
    /\ result.value.performance_regime.regime = "HOT_STREAK"
    /\ result.value.overall_assessment.risk_level = "NORMAL"

InitRegime ==
    /\ \/ /\ Pending("detect_volatility_regime")
          /\ daily_pnl \in SeqsUpTo(DailyResults, MaxDaysLen) \cup {ScenarioSeries}
          /\ window = DefaultWindow
          /\ NoTrades
       \/ /\ Pending("detect_trend_regime")
          /\ daily_pnl \in SeqsUpTo(DailyResults, MaxDaysLen) \cup DayRuns
          /\ window = DefaultWindow
          /\ NoTrades
       \/ /\ Pending("detect_performance_regime")
          /\ \/ /\ trades \in TradeRuns
                /\ window \in Windows
             \/ /\ trades \in SeqsUpTo(OutcomeTrades, MaxTradesLen)
                /\ window \in 1..MaxTradesLen
          /\ daily_pnl = <<>>
       \/ /\ Pending("generate_regime_report")
          /\ daily_pnl \in AlternatingDays
          /\ trades \in ReportTrades
          /\ window = DefaultWindow
    /\ NoIncome /\ NoReturns /\ NoCurve /\ NoPnl /\ NoRanking /\ NoOrders

NextRegime ==
    \/ VolatilityCall
    \/ TrendCall
    \/ PerformanceCall
    \/ RegimeReportCall

SpecRegime == InitRegime /\ [][NextRegime]_vars

\* ------------------------------------------------------------------------
\* Daily ledger: TimeAnalyzer.analyze_by_day and FeeAnalyzer.analyze_fees
\* ------------------------------------------------------------------------
MaxLedgerLen == 3

\* totals after the loop of analyze_fees; float(income) leaves a number as is
FeeTotals(records) ==
    LET funding == OfType(records, "FUNDING_FEE")
    IN  [gross_pnl |-> IncomeOf(OfType(records, "REALIZED_PNL")),
         commission |-> AbsIncomeOf(OfType(records, "COMMISSION")),
         funding_received |->
             IncomeOf(SelectSeq(funding, LAMBDA r : Income(r) > 0)),
         funding_paid |->
             AbsIncomeOf(SelectSeq(funding, LAMBDA r : ~(Income(r) > 0))),
         trade_count |-> Len(OfType(records, "REALIZED_PNL"))]

\* net_funding credited twice over: paid funding added instead of taken off
NetFundingPaidAdded(totals) == totals.funding_received + totals.funding_paid

NetFunding(totals) == totals.funding_received - totals.funding_paid

\* net_pnl = gross - commission + net_funding, before rounding
FeeNetPnl(totals) == totals.gross_pnl - totals.commission + NetFunding(totals)

analyze_fees(records) ==
    LET totals == FeeTotals(records)
        gross == totals.gross_pnl
        commission == totals.commission
    IN  Return([gross_pnl |-> Round2(gross),
                total_commission |-> Round2(commission),
                funding_received |-> Round2(totals.funding_received),
                funding_paid |-> Round2(totals.funding_paid),
                net_funding |-> Round2(NetFunding(totals)),
                net_pnl |-> Round2(FeeNetPnl(totals)),
                trade_count |-> totals.trade_count,
                \* round(commission / gross * 100, 1), in tenths
                commission_pct_of_gross |->
                    IF gross > 0 THEN RoundHalfEven(commission * 1000, gross) ELSE 0,
                avg_commission_per_trade |-> AvgPnl(commission, totals.trade_count)])

FeesCall == Finish("analyze_fees", analyze_fees(income_records))

\* --- the ledgers handed to both analyzers ---
\* 1970-01-01 23:59:59.999, 1970-01-02 00:00:00.000 and 1970-01-03 00:00:00.005
LedgerTimestamps == {MsPerDay - 1, MsPerDay, 2 * MsPerDay + 5}

LedgerRecords ==
    {("income_type" :> ty) @@ ("timestamp" :> ts) @@ Entry("income", inc) :
        ty \in {"REALIZED_PNL", "COMMISSION", "FUNDING_FEE"},
        ts \in LedgerTimestamps, inc \in Opt({-1996, 3000})}

\* --- reference notions for the daily ledger claims ---
DayDone == call = "analyze_by_day" /\ pc = "done"

\* the positions of the input records of one income type on one date
LedgerIndexes(type, date) ==
    {k \in 1..Len(income_records) :
        /\ IncomeType(income_records[k]) = type
        /\ UtcDate(Timestamp(income_records[k])) = date}

SignedAmount(k) == Income(income_records[k])

Magnitude(k) == Abs(Income(income_records[k]))

RECURSIVE SumSigned(_)
SumSigned(S) ==
    IF S = {} THEN 0
    ELSE LET k == CHOOSE j \in S : TRUE IN SignedAmount(k) + SumSigned(S \ {k})

RECURSIVE SumMagnitudes(_)
SumMagnitudes(S) ==
    IF S = {} THEN 0
    ELSE LET k == CHOOSE j \in S : TRUE IN Magnitude(k) + SumMagnitudes(S \ {k})

InputDates == {UtcDate(Timestamp(income_records[k])) : k \in 1..Len(income_records)}

\* C21 (amended): analyze_by_day returns exactly one entry per distinct UTC date of
\* the input, newest date first; each entry reports, to two decimals, the
\* sum of its date's REALIZED_PNL amounts as gross_pnl, the sum of the
\* magnitudes of its COMMISSION amounts as commission, the signed sum of its
\* FUNDING_FEE amounts as funding and gross - commission + funding of the
\* unrounded sums as net_pnl, and counts only REALIZED_PNL records in trade_count and
\* win_count, with win_count <= trade_count.
DailyBucketsPerDate ==
    DayDone =>
        /\ Returned(result)
        /\ {result.value[k].date : k \in 1..Len(result.value)} = InputDates
        /\ \A k \in 1..(Len(result.value) - 1) :
              result.value[k].date > result.value[k + 1].date
        /\ \A k \in 1..Len(result.value) :
              LET entry == result.value[k]
                  realized == LedgerIndexes("REALIZED_PNL", entry.date)
                  gross == SumSigned(realized)
                  commission == SumMagnitudes(LedgerIndexes("COMMISSION", entry.date))
                  funding == SumSigned(LedgerIndexes("FUNDING_FEE", entry.date))
              IN  /\ entry.gross_pnl = Round2(gross)
                  /\ entry.commission = Round2(commission)
                  /\ entry.funding = Round2(funding)
                  /\ entry.net_pnl = Round2(gross - commission + funding)
                  /\ entry.trade_count = Cardinality(realized)
                  /\ entry.win_count =
                        Cardinality({j \in realized : SignedAmount(j) > 0})
                  /\ entry.win_count <= entry.trade_count

\* C21 as stated: in every entry the reported net_pnl is the reported
\* gross_pnl less the reported commission plus the reported funding.
DailyNetFromReportedFields ==
    DayDone =>
        \A k \in 1..Len(result.value) :
            LET entry == result.value[k]
            IN  entry.net_pnl = entry.gross_pnl - entry.commission + entry.funding

\* a report of two dates, newest first: the newer day holds a commission and
\* a funding payment, the older day one losing trade
TwoDaysNewestFirst ==
    /\ DayDone
    /\ Len(result.value) = 2
    /\ result.value[1].date > result.value[2].date
    /\ result.value[1].commission > 0
    /\ result.value[1].funding < 0
    /\ result.value[1].net_pnl < 0
    /\ result.value[2].trade_count = 1
    /\ result.value[2].win_count = 0

\* the accumulators of the given dates added up, before any rounding
RECURSIVE DayTotals(_, _)
DayTotals(stats, dates) ==
    IF dates = {}
    THEN [gross_pnl |-> 0, commission |-> 0, net_pnl |-> 0, trades |-> 0]
    ELSE LET date == CHOOSE d \in dates : TRUE
             day == stats[date]
             rest == DayTotals(stats, dates \ {date})
         IN  [gross_pnl |-> rest.gross_pnl + day.gross_pnl,
              commission |-> rest.commission + day.commission,
              net_pnl |-> rest.net_pnl
                            + (day.gross_pnl - day.commission + day.funding),
              trades |-> rest.trades + day.trades]

RECURSIVE ReportedTrades(_)
ReportedTrades(entries) ==
    IF entries = <<>> THEN 0
    ELSE entries[1].trade_count + ReportedTrades(Tail(entries))

\* C27: for every ledger, the daily accumulators of analyze_by_day add up
\* to the totals of analyze_fees on the same records before rounding: net
\* pnl, gross pnl, commission and trade count; the trade counts of the
\* returned daily entries add up to the fee summary's trade_count.
DailyTotalsMatchFeeSummary ==
    (call \in {"analyze_by_day", "analyze_fees"} /\ pc = "done") =>
        LET stats == daily_stats(income_records)
            daily == DayTotals(stats, DOMAIN stats)
            totals == FeeTotals(income_records)
            by_day == analyze_by_day(income_records).value
            fees == analyze_fees(income_records).value
        IN  /\ daily.net_pnl = FeeNetPnl(totals)
            /\ daily.gross_pnl = totals.gross_pnl
            /\ daily.commission = totals.commission
            /\ daily.trades = totals.trade_count
            /\ result = IF call = "analyze_by_day" THEN Return(by_day) ELSE Return(fees)
            /\ ReportedTrades(by_day) = fees.trade_count

\* a fee summary over two dates with funding both received and paid
FundingBothWaysOverTwoDays ==
    /\ call = "analyze_fees"
    /\ pc = "done"
    /\ result.value.funding_received > 0
    /\ result.value.funding_paid > 0
    /\ result.value.trade_count = 1
    /\ Cardinality(InputDates) = 2

InitLedger ==
    /\ call \in {"analyze_by_day", "analyze_fees"}
    /\ Pending(call)
    /\ income_records \in SeqsUpTo(LedgerRecords, MaxLedgerLen)
    /\ NoTrades /\ NoReturns /\ NoCurve /\ NoPnl /\ NoDaily /\ NoRanking /\ NoOrders

NextLedger == ByDayCall \/ FeesCall

SpecLedger == InitLedger /\ [][NextLedger]_vars

\* ------------------------------------------------------------------------
\* SymbolAnalyzer
\* ------------------------------------------------------------------------
MaxSymbolLen == 3

MaxTopN == 3

Symbol(r) == Get(r, "symbol", "UNKNOWN")

\* list.sort(key=field, reverse=True): stable, larger keys first
RECURSIVE InsertDescending(_, _, _)
InsertDescending(sorted, item, field) ==
    IF sorted = <<>> THEN <<item>>
    ELSE IF sorted[1][field] >= item[field]
         THEN <<sorted[1]>> \o InsertDescending(Tail(sorted), item, field)
         ELSE <<item>> \o sorted

RECURSIVE SortDescending(_, _)
SortDescending(items, field) ==
    IF items = <<>> THEN <<>>
    ELSE InsertDescending(SortDescending(SubSeq(items, 1, Len(items) - 1), field),
                          items[Len(items)], field)

\* the records that reach symbol_stats[symbol]: a truthy symbol and one of
\* the two income types the loop accumulates
SymbolAccounted(records) ==
    SelectSeq(records, LAMBDA r :
        Symbol(r) # "" /\ IncomeType(r) \in {"REALIZED_PNL", "COMMISSION"})

\* an income of exactly zero counted as neither a win nor a loss
SymbolLossesStrict(realized) == Len(SelectSeq(realized, LAMBDA r : Income(r) < 0))

\* the else branch of `if income > 0`
SymbolLosses(realized) == Len(SelectSeq(realized, LAMBDA r : ~(Income(r) > 0)))

\* the entries in first-seen order of their symbols (dict insertion order)
SymbolEntries(records) ==
    LET counted == SymbolAccounted(records)
        symbols == FirstOccurrences([k \in 1..Len(counted) |-> Symbol(counted[k])])
        entry(symbol) ==
            LET own == SelectSeq(counted, LAMBDA r : Symbol(r) = symbol)
                realized == OfType(own, "REALIZED_PNL")
                pnl == IncomeOf(realized)
                commission == AbsIncomeOf(OfType(own, "COMMISSION"))
                wins == Len(SelectSeq(realized, LAMBDA r : Income(r) > 0))
            IN  [symbol |-> symbol,
                 gross_pnl |-> Round2(pnl),
                 commission |-> Round2(commission),
                 net_pnl |-> Round2(pnl - commission),
                 trade_count |-> Len(realized),
                 win_count |-> wins,
                 loss_count |-> SymbolLosses(realized),
                 win_rate |-> WinRate(wins, Len(realized)),
                 avg_pnl_per_trade |-> AvgPnl(pnl, Len(realized))]
    IN  [k \in 1..Len(symbols) |-> entry(symbols[k])]

analyze_by_symbol(records) ==
    Return(SortDescending(SymbolEntries(records), "net_pnl"))

\* s[:k] and s[-k:] for k >= 0, and s[::-1]
Prefix(s, k) == SubSeq(s, 1, IF k < Len(s) THEN k ELSE Len(s))

Suffix(s, k) ==
    IF k = 0 \/ k >= Len(s) THEN s ELSE SubSeq(s, Len(s) - k + 1, Len(s))

Reversed(s) == [k \in 1..Len(s) |-> s[Len(s) - k + 1]]

get_top_performers(stats, k) ==
    Return([top_profitable |-> Prefix(stats, k),
            top_losing |-> IF Len(stats) >= k THEN Reversed(Suffix(stats, k))
                           ELSE Reversed(stats)])

get_most_traded(stats, k) ==
    Return(Prefix(SortDescending(stats, "trade_count"), k))

BySymbolCall == Finish("analyze_by_symbol", analyze_by_symbol(income_records))

TopPerformersCall ==
    Finish("get_top_performers", get_top_performers(symbol_stats, top_n))

MostTradedCall == Finish("get_most_traded", get_most_traded(symbol_stats, top_n))

\* --- the records handed to the symbol analyzer ---
SymbolRecords ==
    {("income_type" :> ty) @@ Entry("symbol", sym) @@ ("income" :> inc) :
        ty \in {"REALIZED_PNL", "COMMISSION"},
        sym \in Opt({"", "BTC", "ETH"}), inc \in {-1996, 0, 3000}}

SymbolLedgers == SeqsUpTo(SymbolRecords, MaxSymbolLen)

\* the rankings are asked of what analyze_by_symbol returned (api/main.py)
AnalyzedStats == {analyze_by_symbol(rs).value : rs \in SymbolLedgers}

\* --- reference notions for the symbol claims ---
SymbolDone == call = "analyze_by_symbol" /\ pc = "done"

\* the symbols of the input: an absent key reads UNKNOWN, an empty one is skipped
InputSymbols ==
    {Symbol(income_records[k]) : k \in 1..Len(income_records)} \ {""}

Smaller(a, b) == IF a < b THEN a ELSE b

NonIncreasing(entries, field) ==
    \A k \in 1..(Len(entries) - 1) : entries[k][field] >= entries[k + 1][field]

SortedByNetPnl ==
    SymbolDone =>
        /\ Returned(result)
        /\ Len(result.value) = Cardinality(InputSymbols)
        /\ {result.value[k].symbol : k \in 1..Len(result.value)} = InputSymbols
        /\ NonIncreasing(result.value, "net_pnl")

\* the ranking queries answered for a limit of at least `least`
RankingsWithin(least) ==
    LET size == Smaller(top_n, Len(symbol_stats))
    IN  /\ (call = "get_top_performers" /\ pc = "done" /\ top_n >= least) =>
              LET top == result.value.top_profitable
                  bottom == result.value.top_losing
              IN  /\ Len(top) = size
                  /\ Len(bottom) = size
                  /\ \A k \in 1..size :
                        /\ top[k] = symbol_stats[k]
                        /\ bottom[k] = symbol_stats[Len(symbol_stats) - k + 1]
        /\ (call = "get_most_traded" /\ pc = "done" /\ top_n >= least) =>
              LET most == result.value
                  chosen == {most[k].symbol : k \in 1..Len(most)}
              IN  /\ Len(most) = size
                  /\ Cardinality(chosen) = size
                  /\ NonIncreasing(most, "trade_count")
                  /\ \A k \in 1..Len(most) :
                        \E j \in 1..Len(symbol_stats) : most[k] = symbol_stats[j]
                  /\ \A k \in 1..Len(most), j \in 1..Len(symbol_stats) :
                        symbol_stats[j].symbol \notin chosen =>
                            symbol_stats[j].trade_count <= most[k].trade_count

\* C22: analyze_by_symbol returns one entry per symbol sorted by net_pnl
\* descending, and for every n >= 0 each ranking query returns at most n
\* entries: top_profitable the n highest-net-pnl symbols, top_losing the n
\* lowest (lowest first), get_most_traded the n highest trade counts in
\* descending order.
RankingsForEveryLimit == SortedByNetPnl /\ RankingsWithin(0)

\* the same rankings hold for every limit of at least 1
RankingsForPositiveLimit == SortedByNetPnl /\ RankingsWithin(1)

\* a limit of 0 answered with every symbol in top_losing
WholeListForLimitZero ==
    /\ call = "get_top_performers"
    /\ pc = "done"
    /\ top_n = 0
    /\ Len(result.value.top_profitable) = 0
    /\ Len(result.value.top_losing) = 3

\* the positions of the REALIZED_PNL records of one symbol in the input
RealizedOf(symbol) ==
    {k \in 1..Len(income_records) :
        /\ IncomeType(income_records[k]) = "REALIZED_PNL"
        /\ Symbol(income_records[k]) = symbol}

RECURSIVE TradeCounts(_)
TradeCounts(entries) ==
    IF entries = <<>> THEN 0
    ELSE entries[1].trade_count + TradeCounts(Tail(entries))

\* C30: in every entry of analyze_by_symbol win_count + loss_count =
\* trade_count, a REALIZED_PNL record of the symbol being a win when its
\* income is > 0 and a loss otherwise (zero included); the trade counts of
\* all entries add up to the number of REALIZED_PNL records whose symbol is
\* not empty, records without a symbol key being grouped under UNKNOWN.
WinsAndLossesCoverTrades ==
    SymbolDone =>
        /\ \A k \in 1..Len(result.value) :
              LET entry == result.value[k]
                  realized == RealizedOf(entry.symbol)
              IN  /\ entry.win_count + entry.loss_count = entry.trade_count
                  /\ entry.trade_count = Cardinality(realized)
                  /\ entry.win_count =
                        Cardinality({j \in realized : SignedAmount(j) > 0})
                  /\ entry.loss_count =
                        Cardinality({j \in realized : SignedAmount(j) <= 0})
        /\ TradeCounts(result.value) =
              Cardinality({k \in 1..Len(income_records) :
                  /\ IncomeType(income_records[k]) = "REALIZED_PNL"
                  /\ Symbol(income_records[k]) # ""})

\* a zero-income trade without a symbol key reported as a loss of UNKNOWN,
\* next to a trade with an empty symbol that no entry counts
ZeroIncomeLossUnderUnknown ==
    /\ SymbolDone
    /\ Len(income_records) = 3
    /\ \E k \in 1..3 :
          /\ "symbol" \notin DOMAIN income_records[k]
          /\ IncomeType(income_records[k]) = "REALIZED_PNL"
          /\ Income(income_records[k]) = 0
    /\ \E k \in 1..3 :
          /\ Symbol(income_records[k]) = ""
          /\ IncomeType(income_records[k]) = "REALIZED_PNL"
    /\ \E k \in 1..Len(result.value) :
          /\ result.value[k].symbol = "UNKNOWN"
          /\ result.value[k].loss_count = 1
          /\ result.value[k].trade_count = 1
    /\ TradeCounts(result.value) = 2

InitSymbol ==
    /\ \/ /\ Pending("analyze_by_symbol")
          /\ income_records \in SymbolLedgers
          /\ NoRanking
       \/ /\ call \in {"get_top_performers", "get_most_traded"}
          /\ Pending(call)
          /\ symbol_stats \in AnalyzedStats
          /\ top_n \in 0..MaxTopN
          /\ NoIncome
    /\ NoTrades /\ NoReturns /\ NoCurve /\ NoPnl /\ NoDaily /\ NoOrders

NextSymbol == BySymbolCall \/ TopPerformersCall \/ MostTradedCall

SpecSymbol == InitSymbol /\ [][NextSymbol]_vars

\* ------------------------------------------------------------------------
\* ExecutionAnalyzer: slippage, order types, fill timing and the report
\* ------------------------------------------------------------------------
MaxOrdersLen == 3

MaxFillsLen == 4

\* the [:3] and [-3:] of the best and worst hours
TopHours == 3

VolumeOf(ts) == SumSeq([k \in 1..Len(ts) |-> Volume(ts[k])])

CommissionOf(ts) == SumSeq([k \in 1..Len(ts) |-> Commission(ts[k])])

\* --- analyze_slippage ---
analyze_slippage(ts) ==
    IF ts = <<>> THEN Return(<<>>)
    ELSE LET total_volume == VolumeOf(ts)
             total_commission == CommissionOf(ts)
         IN  Return(
               [total_volume |-> Round2(total_volume),
                \* round(total_commission, 4), in units of 0.0001
                total_commission |-> 10 * total_commission,
                \* round(effective_fee_rate * 100, 4), in units of 0.0001
                effective_fee_rate_pct |->
                    IF total_volume > 0
                    THEN RoundHalfEven(total_commission * 1000000, total_volume)
                    ELSE 0,
                expected_taker_fee_pct |-> 500,
                \* round((rate - 0.0005) * 100 * 100, 2), in hundredths
                slippage_bps |->
                    IF total_volume > 0
                    THEN RoundHalfEven(total_commission * 1000000 - 500 * total_volume,
                                       total_volume)
                    ELSE -500,
                trades_analyzed |-> Len(ts)])

\* --- analyze_order_types ---
Maker(t) == Get(t, "maker", FALSE)

analyze_order_types(ts) ==
    IF ts = <<>> THEN Return(<<>>)
    ELSE LET makers == SelectSeq(ts, LAMBDA t : Maker(t))
             takers == SelectSeq(ts, LAMBDA t : ~Maker(t))
             total == Len(ts)
         IN  Return(
               [maker_count |-> Len(makers),
                taker_count |-> total - Len(makers),
                maker_ratio_pct |-> WinRate(Len(makers), total),
                taker_ratio_pct |-> WinRate(total - Len(makers), total),
                maker_volume |-> Round2(VolumeOf(makers)),
                taker_volume |-> Round2(VolumeOf(takers)),
                \* round(taker_volume * 0.0003, 2)
                potential_savings_if_all_maker |->
                    10 * RoundHalfEven(VolumeOf(takers) * 3, 100000)])

\* --- analyze_fill_timing ---
Status(o) == Get(o, "status", "None")

CreateTime(o) == Get(o, "create_time", 0)

\* an absent update_time read as 0 instead of the create time
UpdateTimeDefaultZero(o) == Get(o, "update_time", 0)

\* order.get("update_time", order_time)
UpdateTime(o) == Get(o, "update_time", CreateTime(o))

\* `if order_time and fill_time`
Timed(o) == CreateTime(o) # 0 /\ UpdateTime(o) # 0

\* fill_times, in milliseconds
FillTimes(os) ==
    LET timed == SelectSeq(SelectSeq(os, LAMBDA o : Status(o) = "FILLED"),
                           LAMBDA o : Timed(o))
    IN  [k \in 1..Len(timed) |-> UpdateTime(timed[k]) - CreateTime(timed[k])]

InsufficientData == [message |-> "Insufficient order/trade data for timing analysis"]

analyze_fill_timing(os, ts) ==
    IF os = <<>> \/ ts = <<>> THEN Return(InsufficientData)
    ELSE LET filled_orders == SelectSeq(os, LAMBDA o : Status(o) = "FILLED")
             canceled_orders == SelectSeq(os, LAMBDA o : Status(o) = "CANCELED")
             fill_times == FillTimes(os)
             instant == SelectSeq(fill_times, LAMBDA t : t < 1000)
         IN  Return(
               [total_orders |-> Len(os),
                filled_orders |-> Len(filled_orders),
                canceled_orders |-> Len(canceled_orders),
                fill_rate_pct |-> WinRate(Len(filled_orders), Len(os)),
                \* round(sum(fill_times) / len(fill_times), 2), in hundredths of a second
                avg_fill_time_seconds |->
                    IF fill_times # <<>>
                    THEN RoundHalfEven(SumSeq(fill_times), 10 * Len(fill_times))
                    ELSE 0,
                instant_fills_pct |-> WinRate(Len(instant), Len(fill_times))])

\* --- generate_execution_report ---
\* sorted(hourly, key=field): stable, smaller keys first
RECURSIVE InsertAscending(_, _, _)
InsertAscending(sorted, item, field) ==
    IF sorted = <<>> THEN <<item>>
    ELSE IF sorted[1][field] <= item[field]
         THEN <<sorted[1]>> \o InsertAscending(Tail(sorted), item, field)
         ELSE <<item>> \o sorted

RECURSIVE SortAscending(_, _)
SortAscending(items, field) ==
    IF items = <<>> THEN <<>>
    ELSE InsertAscending(SortAscending(SubSeq(items, 1, Len(items) - 1), field),
                         items[Len(items)], field)

\* every hour kept, traded or not
AllHours(sorted_hours) == sorted_hours

\* [h for h in sorted_hours if h["trade_count"] > 0]
ActiveHours(sorted_hours) == SelectSeq(sorted_hours, LAMBDA h : h.trade_count > 0)

\* the report without generated_at, which is the wall clock of the call
generate_execution_report(ts, os) ==
    LET hourly == analyze_execution_by_hour(ts).value
        sorted_hours == SortAscending(hourly, "effective_fee_pct")
    IN  Return(
          [slippage_analysis |-> analyze_slippage(ts).value,
           order_type_analysis |-> analyze_order_types(ts).value,
           fill_timing |-> IF os # <<>> THEN analyze_fill_timing(os, ts).value
                           ELSE <<>>,
           hourly_execution |-> hourly,
           best_execution_hours |-> Prefix(ActiveHours(sorted_hours), TopHours),
           worst_execution_hours |-> Suffix(ActiveHours(sorted_hours), TopHours)])

FillTimingCall == Finish("analyze_fill_timing", analyze_fill_timing(orders, trades))

ExecutionReportCall ==
    Finish("generate_execution_report", generate_execution_report(trades, orders))

\* --- the fills and orders handed to the execution analyzer ---
\* a fill of volume 3.008 in UTC hour h of 1970-01-01, 5 ms past the hour
FillAt(h, commission) ==
    ("timestamp" :> h * MsPerHour + 5) @@ ("quantity" :> 2) @@ ("price" :> 1504)
        @@ ("commission" :> commission)

\* one fill without a usable timestamp, fills in five different hours (two
\* of them at the same fee rate), a dearer fill and a fill without price in
\* the hour after midnight
Fills ==
    {("timestamp" :> 0) @@ ("quantity" :> 2) @@ ("price" :> 1504)
        @@ ("commission" :> 2),
     FillAt(0, -2), FillAt(1, 4), FillAt(2, 6), FillAt(3, 2), FillAt(17, -8),
     FillAt(1, 8),
     ("timestamp" :> MsPerHour + 5) @@ ("quantity" :> 2)}

Orders ==
    {("status" :> st) @@ Entry("create_time", ct) @@ Entry("update_time", ut) :
        st \in {"FILLED", "CANCELED", "NEW"}, ct \in Opt({1000}),
        ut \in Opt({1500})}
    \cup {("status" :> "FILLED") @@ ("create_time" :> 1000) @@ ("update_time" :> 3000),
          ("status" :> "FILLED") @@ ("create_time" :> 0) @@ ("update_time" :> 3000)}

SampleOrders ==
    {<<>>, <<("status" :> "FILLED") @@ ("create_time" :> 1000)
                 @@ ("update_time" :> 1500)>>}

\* --- reference notions for the execution report claim ---
ReportDone == call = "generate_execution_report" /\ pc = "done"

\* the local hours in which some trade with a usable timestamp was filled
TradedHours ==
    {LocalHour(Timestamp(trades[k])) :
        k \in {j \in 1..Len(trades) : Timestamp(trades[j]) # 0}}

\* the effective fee rate the report gives for local hour h
ReportedFee(h) == result.value.hourly_execution[h + 1].effective_fee_pct

HoursOf(entries) == {entries[k].hour : k \in 1..Len(entries)}

\* C23: in the execution report best_execution_hours are the (up to) 3
\* traded hours with the lowest effective fee rate and worst_execution_hours
\* the (up to) 3 traded hours with the highest; an hour without trades is in
\* neither list and both lists are empty when no trade has a usable timestamp.
BestWorstAmongTradedHours ==
    ReportDone =>
        LET best == result.value.best_execution_hours
            worst == result.value.worst_execution_hours
            size == Smaller(TopHours, Cardinality(TradedHours))
        IN  /\ Len(best) = size /\ Cardinality(HoursOf(best)) = size
            /\ Len(worst) = size /\ Cardinality(HoursOf(worst)) = size
            /\ HoursOf(best) \subseteq TradedHours
            /\ HoursOf(worst) \subseteq TradedHours
            /\ \A k \in 1..size :
                  /\ best[k] = result.value.hourly_execution[best[k].hour + 1]
                  /\ worst[k] = result.value.hourly_execution[worst[k].hour + 1]
                  /\ best[k].trade_count > 0
                  /\ worst[k].trade_count > 0
            /\ \A h \in HoursOf(best), other \in TradedHours \ HoursOf(best) :
                  ReportedFee(h) <= ReportedFee(other)
            /\ \A h \in HoursOf(worst), other \in TradedHours \ HoursOf(worst) :
                  ReportedFee(h) >= ReportedFee(other)
            /\ (TradedHours = {}) => (best = <<>> /\ worst = <<>>)

\* a report over four traded hours: three best, three worst, not the same
\* three, while a fill without a usable timestamp is in no hour
FourTradedHoursRanked ==
    /\ ReportDone
    /\ Cardinality(TradedHours) = 4
    /\ Len(result.value.best_execution_hours) = 3
    /\ Len(result.value.worst_execution_hours) = 3
    /\ HoursOf(result.value.best_execution_hours)
          # HoursOf(result.value.worst_execution_hours)

\* a report whose trades all lack a usable timestamp
NoUsableTimestampReported ==
    /\ ReportDone
    /\ trades # <<>>
    /\ TradedHours = {}
    /\ result.value.best_execution_hours = <<>>

\* --- reference notions for the fill timing claim ---
FillTimingDone == call = "analyze_fill_timing" /\ pc = "done"

FilledIndexes == {k \in 1..Len(orders) : Status(orders[k]) = "FILLED"}

\* a timestamp key that is present with a usable (non-zero) value
Present(o, key) == key \in DOMAIN o /\ o[key] # 0

\* the FILLED orders with a create time and an update time, the update time
\* being the create time when the order has none
TimedIndexes ==
    {k \in FilledIndexes :
        /\ Present(orders[k], "create_time")
        /\ Present(orders[k], "update_time") \/ "update_time" \notin DOMAIN orders[k]}

DurationMs(k) ==
    IF "update_time" \in DOMAIN orders[k]
    THEN orders[k]["update_time"] - orders[k]["create_time"]
    ELSE 0

RECURSIVE SumDurations(_)
SumDurations(S) ==
    IF S = {} THEN 0
    ELSE LET k == CHOOSE j \in S : TRUE IN DurationMs(k) + SumDurations(S \ {k})

\* C24: analyze_fill_timing returns only the insufficient-data message when
\* orders or trades are empty; otherwise fill_rate_pct is FILLED orders over
\* all orders x 100, filled_orders + canceled_orders <= total_orders, the
\* average fill time is taken over exactly the FILLED orders with both
\* timestamps (update_time defaulting to create_time), as (update - create)
\* / 1000 seconds, and instant_fills_pct is the share of those durations
\* below 1 second, 0 when there are none.
FillTimingOverTimedOrders ==
    FillTimingDone =>
        /\ Returned(result)
        /\ (orders = <<>> \/ trades = <<>>) =>
              /\ DOMAIN result.value = {"message"}
              /\ result.value = InsufficientData
        /\ (orders # <<>> /\ trades # <<>>) =>
              LET report == result.value
                  timed == Cardinality(TimedIndexes)
                  instant == Cardinality({k \in TimedIndexes : DurationMs(k) < 1000})
              IN  /\ report.total_orders = Len(orders)
                  /\ report.filled_orders = Cardinality(FilledIndexes)
                  /\ report.filled_orders + report.canceled_orders
                        <= report.total_orders
                  /\ report.fill_rate_pct
                        = RoundHalfEven(Cardinality(FilledIndexes) * 1000, Len(orders))
                  /\ report.avg_fill_time_seconds
                        = IF timed = 0 THEN 0
                          ELSE RoundHalfEven(SumDurations(TimedIndexes), 10 * timed)
                  /\ report.instant_fills_pct
                        = IF timed = 0 THEN 0
                          ELSE RoundHalfEven(instant * 1000, timed)

\* three orders: one filled after 2 s, one filled without an update time
\* (duration 0), one canceled: average 1 s, half of the fills instant
DefaultedUpdateTimed ==
    /\ FillTimingDone
    /\ Len(orders) = 3
    /\ trades # <<>>
    /\ result.value.filled_orders = 2
    /\ result.value.canceled_orders = 1
    /\ result.value.avg_fill_time_seconds = 100
    /\ result.value.instant_fills_pct = 500
    /\ \E k \in TimedIndexes : "update_time" \notin DOMAIN orders[k]

\* orders without any trade: only the message comes back
MessageWithoutTrades ==
    /\ FillTimingDone
    /\ orders # <<>>
    /\ trades = <<>>
    /\ result.value = InsufficientData

InitExecution ==
    /\ \/ /\ Pending("analyze_fill_timing")
          /\ orders \in SeqsUpTo(Orders, MaxOrdersLen)
          /\ trades \in {<<>>, <<FillAt(0, 2)>>}
       \/ /\ Pending("generate_execution_report")
          /\ trades \in SeqsUpTo(Fills, MaxFillsLen)
          /\ orders \in SampleOrders
    /\ NoIncome /\ NoReturns /\ NoCurve /\ NoPnl /\ NoDaily /\ NoRanking

NextExecution == FillTimingCall \/ ExecutionReportCall

SpecExecution == InitExecution /\ [][NextExecution]_vars

\* ------------------------------------------------------------------------
\* The guarded ratios: win rates, profit factor, risk/reward, commission share
\* ------------------------------------------------------------------------
MaxWindow == 3

RatiosDone ==
    /\ call \in {"detect_performance_regime", "calculate_trade_stats", "analyze_fees"}
    /\ pc = "done"

\* C25: no ratio computation raises a division-by-zero fault: with a zero
\* denominator each call still returns (0 or the sentinel for its ratio); in
\* particular detect_performance_regime returns for every trades list and
\* every window >= 0.
NoDivisionFault == RatiosDone => Returned(result)

\* the guarded ratios of the other calls: no trades, no losers, no gross pnl
GuardedRatiosReturn ==
    /\ (call = "calculate_trade_stats" /\ pc = "done") =>
          /\ Returned(result)
          /\ (trades # <<>> /\ Losers(PnlList(trades)) = <<>>) =>
                result.value.profit_factor = 9999
    /\ (call = "analyze_fees" /\ pc = "done") =>
          /\ Returned(result)
          /\ (FeeTotals(income_records).gross_pnl <= 0) =>
                result.value.commission_pct_of_gross = 0
          /\ (FeeTotals(income_records).trade_count = 0) =>
                result.value.avg_commission_per_trade = 0
    /\ (call = "detect_performance_regime" /\ pc = "done" /\ trades # <<>>) =>
          Returned(result)

InitRatios ==
    /\ \/ /\ Pending("detect_performance_regime")
          /\ trades \in SeqsUpTo(OutcomeTrades, MaxTradesLen)
          /\ window \in 0..MaxWindow
          /\ daily_pnl = <<>>
          /\ NoIncome
       \/ /\ Pending("calculate_trade_stats")
          /\ trades \in SeqsUpTo(StatsTrades, MaxStatsLen)
          /\ NoIncome /\ NoDaily
       \/ /\ Pending("analyze_fees")
          /\ income_records \in SeqsUpTo(LedgerRecords, MaxRecordsLen)
          /\ NoTrades /\ NoDaily
    /\ NoReturns /\ NoCurve /\ NoPnl /\ NoRanking /\ NoOrders

NextRatios == PerformanceCall \/ TradeStatsCall \/ FeesCall

SpecRatios == InitRatios /\ [][NextRatios]_vars

\* ------------------------------------------------------------------------
\* A session: analyzer calls one after another on the same collections
\* ------------------------------------------------------------------------
MaxSessionLen == 2

SessionCalls == {"_calculate_streaks", "analyze_by_confidence",
                 "analyze_by_hour", "analyze_by_day", "analyze_fees"}

\* the caller hands the collections it holds to the next analyzer, and any
\* list of pnl values to a streak count; the frame of the finished call is
\* gone, whatever its locals last held is not reset
NextInvocation ==
    /\ pc = "done"
    /\ call' \in SessionCalls
    /\ pc' = "start"
    /\ result' = NoResult
    /\ pnl_list' \in SeqsUpTo(StreakPnl, MaxSessionLen)
    /\ UNCHANGED <<income_records, trades, daily_returns, risk_free_rate,
                   annualization_factor, equity_curve, daily_pnl, window,
                   symbol_stats, top_n, orders>>
    /\ UNCHANGED <<i, dd_locals, streak_locals>>

\* --- the collections of a session ---
SessionLedgers ==
    LET pnl == ("income_type" :> "REALIZED_PNL") @@ Entry("timestamp", <<MsPerDay - 1>>)
                  @@ Entry("income", <<3000>>)
        fee == ("income_type" :> "COMMISSION") @@ Entry("timestamp", <<MsPerDay>>)
                  @@ Entry("income", <<-1996>>)
    IN  {<<>>, <<pnl>>, <<fee, pnl>>}

SessionTrades ==
    {<<>>,
     <<Entry("confidence", <<70>>) @@ Entry("realized_pnl", <<3000>>)>>,
     <<Entry("confidence", <<39>>) @@ Entry("realized_pnl", <<-2000>>),
       Entry("confidence", None) @@ Entry("realized_pnl", <<0>>)>>}

\* --- reference notions for the session claim ---
\* the result of the call run alone on its own arguments
Alone ==
    CASE call = "_calculate_streaks" -> Return(calculate_streaks(pnl_list))
      [] call = "analyze_by_confidence" -> analyze_by_confidence(trades)
      [] call = "analyze_by_hour" -> analyze_by_hour(income_records)
      [] call = "analyze_by_day" -> analyze_by_day(income_records)
      [] call = "analyze_fees" -> analyze_fees(income_records)

InitSession ==
    /\ call \in SessionCalls
    /\ Pending(call)
    /\ pnl_list \in SeqsUpTo(StreakPnl, MaxSessionLen)
    /\ income_records \in SessionLedgers
    /\ trades \in SessionTrades
    /\ NoReturns /\ NoCurve /\ NoDaily /\ NoRanking /\ NoOrders

NextSession ==
    \/ StreaksEnter \/ StreaksLoop \/ StreaksReturn
    \/ ConfidenceCall \/ ByHourCall \/ ByDayCall \/ FeesCall
    \/ NextInvocation

SpecSession == InitSession /\ [][NextSession]_vars

====
